---- MODULE Spec2Model ----
(***************************************************************************)
(* Model of the truth-ledger tooling (tools/truth_manager.py and the       *)
(* verifiers it calls).                                                     *)
(*                                                                         *)
(* Files are modelled by their bytes as far as the tooling can tell them   *)
(* apart: a file is a sequence of lines, each a classified content and the *)
(* line terminator that follows it.  A Python str obtained by read_text    *)
(* (universal newlines) is a sequence of line contents, every line ended   *)
(* by "\n".  Every file is assumed to end with a line terminator.           *)
(***************************************************************************)
EXTENDS Integers, Sequences, FiniteSets, TLC

VARIABLES
    TRUTH_MD,               \* bytes of TRUTH.md (the ledger)
    VERSION_PY,             \* bytes of app/version.py (the version marker)
    draft_dir,              \* <draft_root>: draft version -> draft text
    zip_root,               \* <zip_root>: the release archives present
    backup_root,            \* external backups, by the version they captured
    os_linesep,             \* the platform's os.linesep
    truth_phases_required,  \* truth_config.json: truth_phases_required
    pc,                     \* position inside the running operation
    op,                     \* the running operation
    statement_text,         \* its statement / draft text
    overwrite,              \* mint_draft's overwrite flag
    new_ver,                \* local new_ver (draft_ver in mint_draft)
    draft_ver,              \* version of the bound draft (names draft_path)
    truth_md_before,        \* confirm_draft's in-memory snapshot
    version_py_before,
    exc,                    \* the exception in flight / raised to the caller
    failed_at,              \* the step that raised it
    err,                    \* why it was raised
    hist,                   \* history of the run: the files before it, steps passed
    policy,                 \* tools/truth_config.json, as parsed JSON
    tree,                   \* the files of the repository (relative paths)
    pk                      \* the packaging / validation call under study

fs == <<TRUTH_MD, VERSION_PY, draft_dir, zip_root, backup_root>>
env == <<os_linesep, truth_phases_required, policy, tree, pk>>
loc == <<op, statement_text, overwrite, new_ver, draft_ver,
         truth_md_before, version_py_before, exc, failed_at, err, hist>>
vars == <<fs, env, loc, pc>>

----------------------------------------------------------------------------
(* Bounds *)

MaxVer == 3        \* no mint / confirm / draft is started at this version
MaxBlockLen == 4   \* lines of a statement text given to append alone

----------------------------------------------------------------------------
(* Lines *)

PROJECT == "Foo"

Ln(k) == [k |-> k, p |-> "", v |-> 0, f |-> "plain"]
Hdr(p, v) == [k |-> "HDR", p |-> p, v |-> v, f |-> "plain"]
HdrF(p, v, f) == [k |-> "HDR", p |-> p, v |-> v, f |-> f]
BLANK == Ln("BLANK")

Max(a, b) == IF a >= b THEN a ELSE b

\* bytes -> str with universal newlines: "\r\n" and "\r" both read as "\n"
ReadText(bytes) == [i \in DOMAIN bytes |-> bytes[i].c]

\* str -> bytes: every "\n" is written as `newline`
WriteText(str, newline) == [i \in DOMAIN str |-> [c |-> str[i], e |-> newline]]

\* write_text(..., newline="\n")
WriteTextLF(str) == WriteText(str, "LF")

RECURSIVE RStripNl(_)
RStripNl(str) ==
    IF str # <<>> /\ str[Len(str)] = BLANK
    THEN RStripNl(SubSeq(str, 1, Len(str) - 1))
    ELSE str

RECURSIVE LStripNl(_)
LStripNl(str) ==
    IF str # <<>> /\ Head(str) = BLANK THEN LStripNl(Tail(str)) ELSE str

\* s.strip("\n") + "\n"
StripNl(str) ==
    LET s == RStripNl(LStripNl(str)) IN IF s = <<>> THEN <<BLANK>> ELSE s

----------------------------------------------------------------------------
(* tools/truth_manager.py: header patterns, line normalisation *)

CONTROL_KINDS == {"HDR", "LOCKED", "PRE", "POST", "END"}

\* _normalize_truth_candidate: a markdown heading prefix is removed from a
\* header line and from LOCKED / LOCKED PRE / LOCKED POST / END, nothing else
_normalize_truth_candidate(line) ==
    IF line.f = "md" /\ line.k \in CONTROL_KINDS
    THEN [line EXCEPT !.f = "plain"]
    ELSE line

\* the optional type tag of a header: a header line with f = "CONFIRM" is
\* "TRUTH - <project> (TRUTH_V<n>) [CONFIRM]", with an ASCII hyphen
TypeTags == {"CONFIRM", "DREAM", "DEBUG"}

\* _TRUTH_HEADER_RE (manager): tolerates en/em dashes
MgrHeader(line) == line.k = "HDR" /\ line.f \in {"plain", "dash"} \cup TypeTags

\* TRUTH_HEADER_RE (verifier): "TRUTH - " with an ASCII hyphen only
TRUTH_HEADER_RE(line) == line.k = "HDR" /\ line.f \in {"plain"} \cup TypeTags

\* line.strip() == <marker>
IsMarker(line, k) == line.k = k /\ line.f = "plain"

MinOf(S) == IF S = {} THEN 0 ELSE CHOOSE i \in S : \A j \in S : i <= j
MaxOf(S) == IF S = {} THEN 0 ELSE CHOOSE i \in S : \A j \in S : i >= j

\* the indices of the lines that are marker k
MarkerIdx(lines, k) == {i \in DOMAIN lines : IsMarker(lines[i], k)}
HasMarker(lines, k) == MarkerIdx(lines, k) # {}

\* the indices of the lines the manager's header pattern matches
MgrHeaderIdx(lines) == {i \in DOMAIN lines : MgrHeader(lines[i])}

\* a faulty variant of the checks: the header's version is not compared
AppendCheck_any_version(project, ver, block_text, phases) ==
    LET lines == [i \in DOMAIN StripNl(block_text) |->
                    _normalize_truth_candidate(StripNl(block_text)[i])]
        header_idx == MinOf(MgrHeaderIdx(lines))
    IN  IF header_idx = 0 THEN "missing header"
        ELSE IF lines[header_idx].p # project THEN "project mismatch"
        ELSE IF ~HasMarker(lines, "END") THEN "missing END"
        ELSE IF phases /\ HasMarker(lines, "LOCKED") THEN "legacy LOCKED"
        ELSE IF phases /\ ~(HasMarker(lines, "PRE") /\ HasMarker(lines, "POST"))
             THEN "missing phased headers"
        ELSE "ok"

\* The checks of append_truth_md_verbatim, in order; "ok" or the failure
AppendCheck(project, ver, block_text, phases) ==
    LET lines == [i \in DOMAIN StripNl(block_text) |->
                    _normalize_truth_candidate(StripNl(block_text)[i])]
        header_idx == MinOf(MgrHeaderIdx(lines))
    IN  IF header_idx = 0 THEN "missing header"
        ELSE IF lines[header_idx].p # project THEN "project mismatch"
        ELSE IF lines[header_idx].v # ver THEN "version mismatch"
        ELSE IF ~HasMarker(lines, "END") THEN "missing END"
        ELSE IF phases /\ HasMarker(lines, "LOCKED") THEN "legacy LOCKED"
        ELSE IF phases /\ ~(HasMarker(lines, "PRE") /\ HasMarker(lines, "POST"))
             THEN "missing phased headers"
        ELSE "ok"

\* the block appended: from the first header to the first END at or after it
\* (to the end of the text when no END follows the header)
AppendBlock(block_text) ==
    LET lines == [i \in DOMAIN StripNl(block_text) |->
                    _normalize_truth_candidate(StripNl(block_text)[i])]
        header_idx == MinOf(MgrHeaderIdx(lines))
        from_hdr == SubSeq(lines, header_idx, Len(lines))
        end_idx == MinOf(MarkerIdx(from_hdr, "END"))
        cut == IF end_idx = 0 THEN from_hdr ELSE SubSeq(from_hdr, 1, end_idx)
    IN  StripNl(cut)

\* append_truth_md_verbatim: the bytes of TRUTH.md after a successful append
append_truth_md_verbatim(md, block_text) ==
    LET cur == RStripNl(ReadText(md))
        cur2 == IF cur = <<>> THEN <<BLANK, BLANK>> ELSE cur \o <<BLANK>>
    IN  WriteTextLF(cur2 \o AppendBlock(block_text) \o <<BLANK>>)

----------------------------------------------------------------------------
(* app/version.py *)

MarkerLines(project, ver) ==
    << [k |-> "PROJECT_NAME", p |-> project, v |-> 0, f |-> "plain"],
       [k |-> "TRUTH_VERSION", p |-> "", v |-> ver, f |-> "plain"] >>

IsTruthVersion(line) == line.k = "TRUTH_VERSION"
KindIdx(txt, k) == {i \in DOMAIN txt : txt[i].k = k}

\* read_project_and_truth_version: <<project, ver>> (first match of each)
read_project_and_truth_version(py) ==
    LET txt == ReadText(py)
    IN  << txt[MinOf(KindIdx(txt, "PROJECT_NAME"))].p,
           txt[MinOf(KindIdx(txt, "TRUTH_VERSION"))].v >>

\* write_truth_version: every TRUTH_VERSION assignment is rewritten, LF written
write_truth_version(py, ver) ==
    LET txt == ReadText(py)
    IN  WriteTextLF([i \in DOMAIN txt |->
            IF IsTruthVersion(txt[i]) THEN [txt[i] EXCEPT !.v = ver] ELSE txt[i]])

----------------------------------------------------------------------------
(* tools/verify_truth.py *)

RECURSIVE SortedSeq(_)
SortedSeq(S) == IF S = {} THEN <<>> ELSE <<MinOf(S)>> \o SortedSeq(S \ {MinOf(S)})

\* parse_truth_md: one TruthEntry per line the verifier's header pattern matches
parse_truth_md(lines) ==
    LET idx == SortedSeq({i \in DOMAIN lines : TRUTH_HEADER_RE(lines[i])})
    IN  [j \in DOMAIN idx |-> [project |-> lines[idx[j]].p,
                               version |-> lines[idx[j]].v,
                               start_line |-> idx[j]]]

\* parse_truth_md fails on no entries and on mixed project names
parse_truth_md_ok(lines) ==
    LET entries == parse_truth_md(lines)
    IN  /\ entries # <<>>
        /\ \A j \in DOMAIN entries : entries[j].project = entries[1].project

\* a faulty variant: the first version is not compared with 1
verify_truth_sequence_any_start(entries) ==
    \A j \in 1..(Len(entries) - 1) :
       entries[j + 1].version = entries[j].version + 1

verify_truth_sequence(entries) ==
    /\ entries[1].version = 1
    /\ \A j \in 1..(Len(entries) - 1) :
          entries[j + 1].version = entries[j].version + 1

verify_version_matches_latest(project_py, ver_py, project_md, latest_ver) ==
    project_py = project_md /\ ver_py = latest_ver

\* _iter_truth_entry_blocks: the lines after the entry's header, up to the
\* next header (or the end of the document)
_iter_truth_entry_blocks(lines, entries, j) ==
    SubSeq(lines, entries[j].start_line + 1,
           IF j < Len(entries) THEN entries[j + 1].start_line - 1 ELSE Len(lines))

\* a faulty variant of the per-entry checks: one END or more
EntryFormatOk_some_end(block, phases_required) ==
    LET has_locked_pre == HasMarker(block, "PRE")
        has_locked_post == HasMarker(block, "POST")
        has_locked_legacy == HasMarker(block, "LOCKED")
        end_lines == MarkerIdx(block, "END")
    IN  /\ ~HasMarker(block, "PHASE")
        /\ Cardinality(end_lines) >= 1
        /\ IF has_locked_pre \/ has_locked_post
           THEN /\ ~has_locked_legacy
                /\ has_locked_pre
                /\ has_locked_post
                /\ MaxOf(MarkerIdx(block, "PRE")) <= MaxOf(MarkerIdx(block, "POST"))
                /\ MaxOf(MarkerIdx(block, "POST")) <= MaxOf(end_lines)
                /\ HasMarker(block, "NOTES") =>
                      MaxOf(MarkerIdx(block, "NOTES")) <= MaxOf(end_lines)
           ELSE /\ ~phases_required
                /\ has_locked_legacy
                /\ MinOf(MarkerIdx(block, "LOCKED")) <= MinOf(end_lines)

\* a faulty variant of the per-entry checks: the phases flag is not looked at
EntryFormatOk_legacy_allowed(block, phases_required) ==
    LET has_locked_pre == HasMarker(block, "PRE")
        has_locked_post == HasMarker(block, "POST")
        has_locked_legacy == HasMarker(block, "LOCKED")
        end_lines == MarkerIdx(block, "END")
    IN  /\ ~HasMarker(block, "PHASE")
        /\ Cardinality(end_lines) = 1
        /\ IF has_locked_pre \/ has_locked_post
           THEN /\ ~has_locked_legacy
                /\ has_locked_pre
                /\ has_locked_post
                /\ MaxOf(MarkerIdx(block, "PRE")) <= MaxOf(MarkerIdx(block, "POST"))
                /\ MaxOf(MarkerIdx(block, "POST")) <= MaxOf(end_lines)
                /\ HasMarker(block, "NOTES") =>
                      MaxOf(MarkerIdx(block, "NOTES")) <= MaxOf(end_lines)
           ELSE /\ has_locked_legacy
                /\ MinOf(MarkerIdx(block, "LOCKED")) <= MinOf(end_lines)

\* the per-entry checks of verify_truth_md_format
EntryFormatOk(block, phases_required) ==
    LET has_locked_pre == HasMarker(block, "PRE")
        has_locked_post == HasMarker(block, "POST")
        has_locked_legacy == HasMarker(block, "LOCKED")
        end_lines == MarkerIdx(block, "END")
    IN  /\ ~HasMarker(block, "PHASE")
        /\ Cardinality(end_lines) = 1
        /\ IF has_locked_pre \/ has_locked_post
           THEN /\ ~has_locked_legacy
                /\ has_locked_pre
                /\ has_locked_post
                /\ MaxOf(MarkerIdx(block, "PRE")) <= MaxOf(MarkerIdx(block, "POST"))
                /\ MaxOf(MarkerIdx(block, "POST")) <= MaxOf(end_lines)
                /\ HasMarker(block, "NOTES") =>
                      MaxOf(MarkerIdx(block, "NOTES")) <= MaxOf(end_lines)
           ELSE /\ ~phases_required
                /\ has_locked_legacy
                /\ MinOf(MarkerIdx(block, "LOCKED")) <= MinOf(end_lines)

verify_truth_md_format(lines, phases_required) ==
    LET entries == parse_truth_md(lines)
    IN  \A j \in DOMAIN entries :
           EntryFormatOk(_iter_truth_entry_blocks(lines, entries, j), phases_required)

ZipName(ver, kind) == [ver |-> ver, kind |-> kind]

verify_truth_zip_naming(zips, ver) ==
    ZipName(ver, "FULL") \in zips /\ ZipName(ver, "SLIM") \in zips

\* verify_truth.main: the checks that read the ledger, the marker and the
\* archive root.  The checks of the rest of the tree (main.py import, config
\* presence, text hygiene, derived index, archive contents) are the
\* environment's and are decided by the caller of this operator.
verify_truth_main(phase, md, py, zips, phases_required) ==
    LET lines == ReadText(md)
        pv == read_project_and_truth_version(py)
        entries == parse_truth_md(lines)
    IN  /\ parse_truth_md_ok(lines)
        /\ verify_truth_sequence(entries)
        /\ verify_version_matches_latest(pv[1], pv[2], entries[1].project,
                                         entries[Len(entries)].version)
        /\ verify_truth_md_format(lines, phases_required)
        /\ phase = "post" => verify_truth_zip_naming(zips, pv[2])

----------------------------------------------------------------------------
(* Draft store *)

EmptyDir == [v \in {} |-> <<>>]

\* find_pending_draft: the highest draft version, 0 for None
find_pending_draft(ddir) == MaxOf(DOMAIN ddir)

\* a faulty variant: the draft file is written without the statement
DraftText_empty(text) == << BLANK >>

\* write_draft's text
DraftText(text) == StripNl(text)

PutDraft(ddir, ver, text) ==
    [v \in (DOMAIN ddir) \cup {ver} |-> IF v = ver THEN text ELSE ddir[v]]

\* a faulty variant: the draft file is kept
DelDraft_keeps(ddir, ver) == ddir

DelDraft(ddir, ver) == [v \in (DOMAIN ddir) \ {ver} |-> ddir[v]]

----------------------------------------------------------------------------
(* Release archives: tools/make_truth_zip.py *)

\* make_zip on success: the target is unlinked, built and renamed into place
make_zip(zips, ver, kind) == zips \cup {ZipName(ver, kind)}

\* make_zip on failure: the old target has been unlinked (lines 25-26)
make_zip_failed(zips, ver, kind) == zips \ {ZipName(ver, kind)}

----------------------------------------------------------------------------
(* The operations' control flow: tools/truth_manager.py *)

\* a faulty order: the draft is unlinked before post-phase verification
StepsOf_commit_early(o) ==
    CASE o = "confirm" ->
           << "pre_verify", "bind_draft", "snapshot", "append", "bump",
              "repo_map", "build_index", "verify_index", "zip_full", "zip_slim",
              "validate_full", "validate_slim", "commit", "post_verify" >>
      [] o = "mint" ->
           << "pre_verify", "read_version", "snapshot", "append", "bump",
              "repo_map", "build_index", "verify_index", "zip_full", "zip_slim",
              "post_verify" >>
      [] o = "mint_draft" -> << "pre_verify", "write_draft" >>
      [] OTHER -> << >>

\* a faulty order: the ledger is appended to before the backup and snapshot
StepsOf_append_first(o) ==
    CASE o = "confirm" ->
           << "pre_verify", "bind_draft", "append", "snapshot", "bump",
              "repo_map", "build_index", "verify_index", "zip_full", "zip_slim",
              "validate_full", "validate_slim", "post_verify", "commit" >>
      [] o = "mint" ->
           << "pre_verify", "read_version", "append", "snapshot", "bump",
              "repo_map", "build_index", "verify_index", "zip_full", "zip_slim",
              "post_verify" >>
      [] o = "mint_draft" -> << "pre_verify", "write_draft" >>
      [] OTHER -> << >>

\* the steps of an operation, in the order the code runs them
StepsOf(o) ==
    CASE o = "confirm" ->
           << "pre_verify", "bind_draft", "snapshot", "append", "bump",
              "repo_map", "build_index", "verify_index", "zip_full", "zip_slim",
              "validate_full", "validate_slim", "post_verify", "commit" >>
      [] o = "mint" ->
           << "pre_verify", "read_version", "snapshot", "append", "bump",
              "repo_map", "build_index", "verify_index", "zip_full", "zip_slim",
              "post_verify" >>
      [] o = "mint_draft" -> << "pre_verify", "write_draft" >>
      [] OTHER -> << >>

StepIdx(o, step) == MinOf({i \in DOMAIN StepsOf(o) : StepsOf(o)[i] = step})

\* the step that follows `step`, "done" after the last one
NextStep(o, step) ==
    IF StepIdx(o, step) < Len(StepsOf(o))
    THEN StepsOf(o)[StepIdx(o, step) + 1]
    ELSE "done"

\* what a failing step raises: the verifiers' fail() raises SystemExit,
\* everything else a RuntimeError / OSError
ExcKind(step) ==
    IF step \in {"pre_verify", "verify_index", "post_verify"}
    THEN "SystemExit"
    ELSE "Exception"

\* the statements inside confirm_draft's try block (lines 482-511)
InTry(step) ==
    step \in {"append", "bump", "repo_map", "build_index", "verify_index",
              "zip_full", "zip_slim", "validate_full", "validate_slim",
              "post_verify", "commit"}

\* `except Exception` (line 513): SystemExit is a BaseException and passes it
Catches(kind) == kind = "Exception"

\* where control goes when `step` of operation o raises
HandlerPc(o, step) ==
    IF o = "confirm" /\ InTry(step) /\ Catches(ExcKind(step))
    THEN "rollback"
    ELSE "done"

Pass(step) ==
    /\ pc' = NextStep(op, step)
    /\ UNCHANGED <<exc, failed_at, err>>

\* `step` raises for the reason `why`
FailWith(step, why) ==
    /\ pc' = HandlerPc(op, step)
    /\ exc' = ExcKind(step)
    /\ failed_at' = step
    /\ err' = why

\* `step` raises because of the environment (I/O, the rest of the tree)
Fail(step) == FailWith(step, "env")

cur_ver == read_project_and_truth_version(VERSION_PY)[2]
project == read_project_and_truth_version(VERSION_PY)[1]

----------------------------------------------------------------------------
(* Inputs *)

EolStyles == {"LF", "CRLF"}
LineSeps == {"LF", "CRLF"}

EntryLines(v, phased) ==
    IF phased
    THEN << Hdr(PROJECT, v), Ln("PRE"), Ln("POST"), Ln("END"), BLANK >>
    ELSE << Hdr(PROJECT, v), Ln("LOCKED"), Ln("END"), BLANK >>

RECURSIVE InitLedger(_, _)
InitLedger(n, phased) ==
    IF n = 0 THEN << >> ELSE InitLedger(n - 1, phased) \o EntryLines(n, phased)

\* the statement texts an operator may supply when the next version is nv
Blocks(nv) ==
    { << Hdr(PROJECT, nv), Ln("PRE"), Ln("POST"), Ln("END") >>,
      << Hdr(PROJECT, nv), Ln("LOCKED"), Ln("END") >>,
      << Hdr(PROJECT, nv - 1), Ln("PRE"), Ln("POST"), Ln("END") >>,
      << Hdr(PROJECT, nv + 1), Ln("PRE"), Ln("POST"), Ln("END") >>,
      << Hdr("Bar", nv), Ln("PRE"), Ln("POST"), Ln("END") >>,
      << Hdr(PROJECT, nv), Ln("PRE"), Ln("POST") >>,
      << Ln("PRE"), Ln("POST"), Ln("END") >>,
      << Hdr(PROJECT, nv), Ln("PRE"), Ln("POST"), Hdr(PROJECT, nv + 2), Ln("END") >>,
      << Ln("TEXT"), HdrF(PROJECT, nv, "md"), Ln("PRE"), Ln("POST"), Ln("END"),
         Ln("TEXT") >> }

\* the draft texts an operator may supply when the next version is nv
DraftBlocks(nv) ==
    { << Hdr(PROJECT, nv), Ln("PRE"), Ln("POST"), Ln("END") >>,
      << Hdr(PROJECT, nv), Ln("PRE"), Ln("POST"), Hdr(PROJECT, nv + 2), Ln("END") >> }

----------------------------------------------------------------------------
(* Initial state *)

\* what the except block of confirm_draft raises (lines 560-567): nothing yet,
\* the original error re-raised, or the ROLLBACK HARD-FAIL RuntimeError that
\* carries the original error and the rollback errors
NoError == [kind |-> "none", original |-> "none", rollback_errors |-> {}]

NoHist == [md |-> << >>, py |-> << >>, zips |-> {}, drafts |-> EmptyDir,
           backups |-> {}, pre_verified |-> FALSE, backup_written |-> FALSE,
           snapshot |-> FALSE,
           rb_attempted |-> {}, rollback_failed |-> {}, raised |-> NoError]

NoRun ==
    /\ op = "none"
    /\ statement_text = << >>
    /\ overwrite = FALSE
    /\ new_ver = 0
    /\ draft_ver = 0
    /\ truth_md_before = << >>
    /\ version_py_before = << >>
    /\ exc = "none"
    /\ failed_at = "none"
    /\ err = "none"
    /\ hist = NoHist

\* the ledger operations are studied with the default policy document and
\* without regard to the rest of the tree
DefaultPolicy == [keys |-> {}]
NoPk == [at |-> "idle"]
NoPackaging == policy = DefaultPolicy /\ tree = {} /\ pk = NoPk

Init ==
    /\ \E e0 \in EolStyles, ph \in BOOLEAN :
          /\ TRUTH_MD = WriteText(InitLedger(1, ph), e0)
          /\ VERSION_PY = WriteText(MarkerLines(PROJECT, 1), e0)
          /\ truth_phases_required = ph
    /\ os_linesep \in LineSeps
    /\ draft_dir = EmptyDir
    /\ zip_root = {}
    /\ backup_root = {}
    /\ pc = "idle"
    /\ NoRun
    /\ NoPackaging

----------------------------------------------------------------------------
(* Starting an operation (tools/truth_manager.py main) *)

Begin(o) ==
    /\ pc = "idle"
    /\ cur_ver < MaxVer
    /\ pc' = "pre_verify"
    /\ op' = o
    /\ hist' = [NoHist EXCEPT !.md = TRUTH_MD, !.py = VERSION_PY,
                              !.zips = zip_root, !.drafts = draft_dir,
                              !.backups = backup_root]
    /\ UNCHANGED <<statement_text, overwrite, new_ver, draft_ver,
                   truth_md_before, version_py_before, exc, failed_at, err>>
    /\ UNCHANGED <<fs, env>>

\* Each operation's arguments (the statement text, the overwrite flag) are
\* drawn at the step that first reads them.
call_mint_draft == Begin("mint_draft") /\ pc = "idle"

call_confirm_draft == Begin("confirm") /\ pc = "idle"

call_mint_truth == Begin("mint") /\ pc = "idle"

----------------------------------------------------------------------------
(* Steps *)

locals == <<op, statement_text, overwrite, new_ver, draft_ver,
            truth_md_before, version_py_before>>

\* verify_truth.main(["--phase", "pre"]) (lines 417, 442, 584)
pre_verify ==
    /\ pc = "pre_verify"
    /\ \E env_ok \in BOOLEAN :
          IF env_ok /\ verify_truth_main("pre", TRUTH_MD, VERSION_PY, zip_root,
                                         truth_phases_required)
          THEN Pass("pre_verify") /\ hist' = [hist EXCEPT !.pre_verified = TRUE]
          ELSE /\ FailWith("pre_verify", IF env_ok THEN "verify" ELSE "env")
               /\ UNCHANGED hist
    /\ UNCHANGED <<fs, env, locals>>

\* mint_draft, lines 419-424, and write_draft
write_draft ==
    /\ pc = "write_draft"
    /\ new_ver' = cur_ver + 1
    /\ \E text \in DraftBlocks(cur_ver + 1), ow \in BOOLEAN, io_ok \in BOOLEAN :
          /\ statement_text' = text
          /\ overwrite' = ow
          /\ IF io_ok /\ ~((cur_ver + 1) \in DOMAIN draft_dir /\ ~ow)
             THEN /\ draft_dir' = PutDraft(draft_dir, cur_ver + 1, DraftText(text))
                  /\ Pass("write_draft")
             ELSE /\ UNCHANGED draft_dir
                  /\ FailWith("write_draft",
                              IF io_ok THEN "draft already exists" ELSE "env")
    /\ UNCHANGED <<TRUTH_MD, VERSION_PY, zip_root, backup_root, env, hist>>
    /\ UNCHANGED <<op, draft_ver, truth_md_before, version_py_before>>

\* a faulty variant: a pending draft of any version is accepted
DraftConflict_none_only(pending, want_ver) == pending = 0

\* confirm_draft, lines 448-452: what the pending draft (0: none) must be
DraftConflict(pending, want_ver) == pending = 0 \/ pending # want_ver

\* confirm_draft, lines 444-454
bind_draft ==
    /\ pc = "bind_draft"
    /\ new_ver' = cur_ver + 1
    /\ draft_ver' = find_pending_draft(draft_dir)
    /\ IF DraftConflict(find_pending_draft(draft_dir), cur_ver + 1)
       THEN /\ FailWith("bind_draft",
                        IF find_pending_draft(draft_dir) = 0
                        THEN "no pending draft" ELSE "pending draft version")
            /\ UNCHANGED statement_text
       ELSE /\ statement_text' = draft_dir[find_pending_draft(draft_dir)]
            /\ Pass("bind_draft")
    /\ UNCHANGED <<fs, env, hist>>
    /\ UNCHANGED <<op, overwrite, truth_md_before, version_py_before>>

\* mint_truth, lines 586-587
read_version ==
    /\ pc = "read_version"
    /\ new_ver' = cur_ver + 1
    /\ \E text \in Blocks(cur_ver + 1) : statement_text' = text
    /\ Pass("read_version")
    /\ UNCHANGED <<fs, env, hist>>
    /\ UNCHANGED <<op, overwrite, draft_ver, truth_md_before, version_py_before>>

\* lines 458-475 (confirm_draft) and 591-601 (mint_truth): the external
\* backup, then (confirm_draft only) the in-memory snapshot
snapshot ==
    /\ pc = "snapshot"
    /\ \E io_ok \in BOOLEAN :
          IF io_ok
          THEN /\ backup_root' = backup_root \cup {cur_ver}
               /\ IF op = "confirm"
                  THEN /\ truth_md_before' = ReadText(TRUTH_MD)
                       /\ version_py_before' = ReadText(VERSION_PY)
                       /\ hist' = [hist EXCEPT !.backup_written = TRUE,
                                               !.snapshot = TRUE]
                  ELSE /\ UNCHANGED <<truth_md_before, version_py_before>>
                       /\ hist' = [hist EXCEPT !.backup_written = TRUE]
               /\ Pass("snapshot")
          ELSE /\ UNCHANGED <<backup_root, truth_md_before, version_py_before, hist>>
               /\ Fail("snapshot")
    /\ UNCHANGED <<TRUTH_MD, VERSION_PY, draft_dir, zip_root, env>>
    /\ UNCHANGED <<op, statement_text, overwrite, new_ver, draft_ver>>

\* append_truth_md_verbatim(project, new_ver, statement_text) (lines 484, 604)
append ==
    /\ pc = "append"
    /\ \E io_ok \in BOOLEAN :
          IF io_ok /\ AppendCheck(project, new_ver, statement_text,
                                  truth_phases_required) = "ok"
          THEN /\ TRUTH_MD' = append_truth_md_verbatim(TRUTH_MD, statement_text)
               /\ Pass("append")
          ELSE /\ UNCHANGED TRUTH_MD
               /\ FailWith("append",
                           IF io_ok
                           THEN AppendCheck(project, new_ver, statement_text,
                                            truth_phases_required)
                           ELSE "env")
    /\ UNCHANGED <<VERSION_PY, draft_dir, zip_root, backup_root, env, locals, hist>>

\* write_truth_version(new_ver) (lines 485, 605)
bump ==
    /\ pc = "bump"
    /\ \E io_ok \in BOOLEAN :
          IF io_ok
          THEN /\ VERSION_PY' = write_truth_version(VERSION_PY, new_ver)
               /\ Pass("bump")
          ELSE /\ UNCHANGED VERSION_PY
               /\ Fail("bump")
    /\ UNCHANGED <<TRUTH_MD, draft_dir, zip_root, backup_root, env, locals, hist>>

\* a step whose effect is outside the modelled files: it passes or raises
EnvStep(step) ==
    /\ pc = step
    /\ \E env_ok \in BOOLEAN : IF env_ok THEN Pass(step) ELSE Fail(step)
    /\ UNCHANGED <<fs, env, locals, hist>>

\* update_repo_map_main([]) (lines 488, 610)
repo_map == pc = "repo_map" /\ EnvStep("repo_map")

\* build_ai_index() (lines 491, 615)
build_index == pc = "build_index" /\ EnvStep("build_index")

\* verify_ai_index_main([]) (lines 492, 616)
verify_index == pc = "verify_index" /\ EnvStep("verify_index")

ZipStep(step, kind) ==
    /\ pc = step
    /\ \E io_ok \in BOOLEAN :
          IF io_ok
          THEN zip_root' = make_zip(zip_root, new_ver, kind) /\ Pass(step)
          ELSE zip_root' = make_zip_failed(zip_root, new_ver, kind) /\ Fail(step)
    /\ UNCHANGED <<TRUTH_MD, VERSION_PY, draft_dir, backup_root, env, locals, hist>>

\* make_zip(full_zip, ...) (lines 494, 622)
zip_full == pc = "zip_full" /\ ZipStep("zip_full", "FULL")

\* make_zip(slim_zip, ...) (lines 495, 623)
zip_slim == pc = "zip_slim" /\ ZipStep("zip_slim", "SLIM")

\* validate_truth_zip(full_zip) (line 499)
validate_full == pc = "validate_full" /\ EnvStep("validate_full")

\* validate_truth_zip(slim_zip) (line 500)
validate_slim == pc = "validate_slim" /\ EnvStep("validate_slim")

\* verify_truth.main(["--phase", "post"]) (lines 503, 626)
post_verify ==
    /\ pc = "post_verify"
    /\ \E env_ok \in BOOLEAN :
          IF env_ok /\ verify_truth_main("post", TRUTH_MD, VERSION_PY, zip_root,
                                         truth_phases_required)
          THEN Pass("post_verify")
          ELSE FailWith("post_verify", IF env_ok THEN "verify" ELSE "env")
    /\ UNCHANGED <<fs, env, locals, hist>>

\* draft_path.unlink() (lines 506-511)
commit ==
    /\ pc = "commit"
    /\ \E io_ok \in BOOLEAN :
          IF io_ok
          THEN draft_dir' = DelDraft(draft_dir, draft_ver) /\ Pass("commit")
          ELSE UNCHANGED draft_dir /\ Fail("commit")
    /\ UNCHANGED <<TRUTH_MD, VERSION_PY, zip_root, backup_root, env, locals, hist>>

\* a faulty variant: the snapshot is written back without its last line
RestoreFile_short(before, linesep) ==
    WriteText(SubSeq(before, 1, Len(before) - 1), linesep)

\* the files after the except block of confirm_draft (lines 513-567)
RestoreFile(before, linesep) == WriteText(before, linesep)

\* the restore steps of the except block, in the order of the code
RB_STEPS == << "restore_md", "restore_py", "del_full", "del_slim" >>

\* the restore steps that can raise: a write, or the unlink of a file that exists
RollbackCanFail(zips, ver) ==
    {"restore_md", "restore_py"}
      \cup (IF ZipName(ver, "FULL") \in zips THEN {"del_full"} ELSE {})
      \cup (IF ZipName(ver, "SLIM") \in zips THEN {"del_slim"} ELSE {})

\* a faulty variant: the steps after the first failing one are not attempted
RollbackAttempted_until_failure(fails) ==
    { RB_STEPS[i] : i \in { j \in DOMAIN RB_STEPS :
                              \A k \in 1..(j - 1) : RB_STEPS[k] \notin fails } }

\* the steps attempted when the steps of `fails` raise: each step has a try
\* block of its own (lines 526-551), so all of them
RollbackAttempted(fails) == { RB_STEPS[i] : i \in DOMAIN RB_STEPS }

\* the archives a rollback whose steps `done` succeeded has deleted
RollbackZips(zips, ver, done) ==
    zips \ ( (IF "del_full" \in done THEN {ZipName(ver, "FULL")} ELSE {})
              \cup (IF "del_slim" \in done THEN {ZipName(ver, "SLIM")} ELSE {}) )

\* lines 560-567: what reaches the caller after the restore steps
RollbackRaise(original, rollback_failed) ==
    IF rollback_failed # {}
    THEN [kind |-> "ROLLBACK HARD-FAIL", original |-> original,
          rollback_errors |-> rollback_failed]
    ELSE [kind |-> "original", original |-> original, rollback_errors |-> {}]

rollback ==
    /\ pc = "rollback"
    /\ \E fails \in SUBSET RollbackCanFail(zip_root, new_ver) :
          LET attempted == RollbackAttempted(fails)
              done == attempted \ fails
          IN  /\ TRUTH_MD' = IF "restore_md" \in done
                             THEN RestoreFile(truth_md_before, os_linesep)
                             ELSE TRUTH_MD
              /\ VERSION_PY' = IF "restore_py" \in done
                               THEN RestoreFile(version_py_before, os_linesep)
                               ELSE VERSION_PY
              /\ zip_root' = RollbackZips(zip_root, new_ver, done)
              /\ hist' = [hist EXCEPT
                            !.rb_attempted = attempted,
                            !.rollback_failed = attempted \cap fails,
                            !.raised = RollbackRaise(failed_at, attempted \cap fails)]
    /\ pc' = "done"
    /\ UNCHANGED <<draft_dir, backup_root, env, locals, exc, failed_at, err>>

\* control returns to the caller.  After a ROLLBACK HARD-FAIL the working
\* tree is left as the failed restore steps left it and no further operation
\* on it is studied.
return ==
    /\ pc = "done"
    /\ hist.rollback_failed = {}
    /\ pc' = "idle"
    /\ op' = "none"
    /\ statement_text' = << >>
    /\ overwrite' = FALSE
    /\ new_ver' = 0
    /\ draft_ver' = 0
    /\ truth_md_before' = << >>
    /\ version_py_before' = << >>
    /\ exc' = "none"
    /\ failed_at' = "none"
    /\ err' = "none"
    /\ hist' = NoHist
    /\ UNCHANGED <<fs, env>>

Next ==
    \/ call_mint_draft
    \/ call_confirm_draft
    \/ call_mint_truth
    \/ pre_verify
    \/ write_draft
    \/ bind_draft
    \/ read_version
    \/ snapshot
    \/ append
    \/ bump
    \/ repo_map
    \/ build_index
    \/ verify_index
    \/ zip_full
    \/ zip_slim
    \/ validate_full
    \/ validate_slim
    \/ post_verify
    \/ commit
    \/ rollback
    \/ return

Spec == Init /\ [][Next]_vars

----------------------------------------------------------------------------
(* append_truth_md_verbatim on its own: mint_truth stands at line 604 with a
   ledger 1..1 and any statement text of up to MaxBlockLen lines *)

LineAlphabet(nv) ==
    { Hdr(PROJECT, nv), Hdr(PROJECT, nv - 1), Hdr(PROJECT, nv + 1), Hdr("Bar", nv),
      Ln("END"), Ln("PRE"), Ln("POST"), Ln("LOCKED") }

AllBlocks(nv) == UNION { [1..n -> LineAlphabet(nv)] : n \in 1..MaxBlockLen }

InitAppend ==
    /\ \E e0 \in EolStyles, ph \in BOOLEAN :
          /\ TRUTH_MD = WriteText(InitLedger(1, ph), e0)
          /\ VERSION_PY = WriteText(MarkerLines(PROJECT, 1), e0)
          /\ truth_phases_required = ph
          /\ hist = [NoHist EXCEPT !.md = WriteText(InitLedger(1, ph), e0),
                                   !.py = WriteText(MarkerLines(PROJECT, 1), e0),
                                   !.pre_verified = TRUE,
                                   !.backup_written = TRUE]
    /\ os_linesep = "LF"
    /\ draft_dir = EmptyDir
    /\ zip_root = {}
    /\ backup_root = {1}
    /\ pc = "append"
    /\ op = "mint"
    /\ statement_text \in AllBlocks(2)
    /\ overwrite = FALSE
    /\ new_ver = 2
    /\ draft_ver = 0
    /\ truth_md_before = << >>
    /\ version_py_before = << >>
    /\ exc = "none"
    /\ failed_at = "none"
    /\ err = "none"
    /\ NoPackaging

SpecAppend == InitAppend /\ [][append]_vars

----------------------------------------------------------------------------
(* Paths and the policy document: tools/truth_config.py, tools/repo_walk.py *)

MaxDepth == 2      \* components of a relative path

\* the file and folder names of the studied trees
Names == { ".git", "_truth", "_truth_drafts", "_logs", "app", "tools",
           "a.txt", "A.txt", "m.pyc", "d.LOG" }

\* str.lower() on the names and extensions in use
Lower(str) ==
    CASE str = "A.txt" -> "a.txt"
      [] str = "d.LOG" -> "d.log"
      [] str = ".LOG" -> ".log"
      [] str = ".TXT" -> ".txt"
      [] OTHER -> str

\* PurePath.suffix of a name
Suffix(name) ==
    CASE name \in {"a.txt", "A.txt"} -> ".txt"
      [] name = "m.pyc" -> ".pyc"
      [] name = "d.LOG" -> ".LOG"
      [] OTHER -> ""

\* relative paths: the sequence rel.parts
Paths == UNION { [1..n -> Names] : n \in 1..MaxDepth }

Parts(rel) == { rel[i] : i \in DOMAIN rel }
NameOf(rel) == rel[Len(rel)]

\* _has_any_part
_has_any_part(rel, names) == Parts(rel) \cap names # {}

\* data.get(k, default) on the parsed policy document
Get(data, k, default) == IF k \in data.keys THEN data[k] ELSE default

\* Config(): the defaults of the dataclass (lines 18-47)
ConfigDefaults ==
    [ zip_root |-> "_truth", ai_index_root |-> "_ai_index",
      draft_root |-> "_truth_drafts",
      exclude_common_folders |->
         { ".git", "__pycache__", "_logs", "_outputs", "_build", "_dist", ".venv",
           "venv", "env", "_truth", "_truth_backups", "_truth_drafts", "_ai_index" },
      exclude_common_files |-> { ".env" } ]

\* Config.load without the merge of lines 74-77
Config_fields(data) ==
    [ zip_root |-> Get(data, "zip_root", "_truth"),
      ai_index_root |-> Get(data, "ai_index_root", "_ai_index"),
      draft_root |-> Get(data, "draft_root", "_truth_drafts"),
      exclude_common_folders |->
         Get(data, "exclude_common_folders", ConfigDefaults.exclude_common_folders),
      exclude_common_files |->
         Get(data, "exclude_common_files", ConfigDefaults.exclude_common_files),
      slim_exclude_folders |-> Get(data, "slim_exclude_folders", {}),
      slim_exclude_ext |-> Get(data, "slim_exclude_ext", {}),
      slim_exclude_extra_folders |-> Get(data, "slim_exclude_extra_folders", {}) ]

\* Config.load: the artifact roots are merged into exclude_common_folders
Config_load(data) ==
    LET cfg == Config_fields(data)
        roots == {cfg.zip_root, cfg.ai_index_root, cfg.draft_root} \ {""}
    IN  [cfg EXCEPT !.exclude_common_folders = cfg.exclude_common_folders \cup roots]

\* TruthConfig.load (tools/truth_manager.py): the document's lists as they are
TruthConfig_load(data) ==
    [ zip_root |-> Get(data, "zip_root", "_truth"),
      ai_index_root |-> Get(data, "ai_index_root", "_ai_index"),
      draft_root |-> Get(data, "draft_root", "_truth_drafts"),
      exclude_common_folders |-> Get(data, "exclude_common_folders", {}),
      exclude_common_files |-> Get(data, "exclude_common_files", {}),
      slim_exclude_folders |-> Get(data, "slim_exclude_folders", {}),
      slim_exclude_ext |-> Get(data, "slim_exclude_ext", {}),
      slim_exclude_extra_folders |-> Get(data, "slim_exclude_extra_folders", {}) ]

\* a faulty variant: the extension is compared without lower-casing
should_exclude_ext_as_is(rel, cfg, slim, allow_top_level) ==
    LET exclude_folders ==
            IF rel[1] \in allow_top_level
            THEN cfg.exclude_common_folders \ {rel[1]}
            ELSE cfg.exclude_common_folders
    IN  \/ ".git" \in Parts(rel)
        \/ _has_any_part(rel, exclude_folders)
        \/ NameOf(rel) \in cfg.exclude_common_files
        \/ /\ slim
           /\ \/ _has_any_part(rel, cfg.slim_exclude_folders
                                      \cup cfg.slim_exclude_extra_folders)
              \/ Suffix(NameOf(rel)) \in cfg.slim_exclude_ext

\* repo_walk.should_exclude
should_exclude(rel, cfg, slim, allow_top_level) ==
    LET exclude_folders ==
            IF rel[1] \in allow_top_level
            THEN cfg.exclude_common_folders \ {rel[1]}
            ELSE cfg.exclude_common_folders
    IN  \/ ".git" \in Parts(rel)
        \/ _has_any_part(rel, exclude_folders)
        \/ NameOf(rel) \in cfg.exclude_common_files
        \/ /\ slim
           /\ \/ _has_any_part(rel, cfg.slim_exclude_folders
                                      \cup cfg.slim_exclude_extra_folders)
              \/ Lower(Suffix(NameOf(rel)))
                    \in { Lower(x) : x \in cfg.slim_exclude_ext }

\* repo_backup._should_exclude, on the raw policy document
_should_exclude(rel, data) ==
    \/ ".git" \in Parts(rel)
    \/ "__pycache__" \in Parts(rel)
    \/ Lower(Suffix(NameOf(rel))) = ".pyc"
    \/ rel[1] \in Get(data, "exclude_common_folders", {})
    \/ NameOf(rel) \in Get(data, "exclude_common_files", {})
    \/ rel[1] \in {"_truth_backups", Get(data, "draft_root", "_truth_drafts")}

\* ai_index._should_skip
_should_skip(rel, cfg) ==
    \/ \E i \in 1..(Len(rel) - 1) : rel[i] \in cfg.exclude_common_folders
    \/ NameOf(rel) \in cfg.exclude_common_files
    \/ rel[1] \in {cfg.zip_root, cfg.ai_index_root}

\* the policy documents studied: any choice of the listed values, each key
\* present or (exclude_common_folders) absent
PolicyDocs ==
    { [ keys |-> ks \cup { "exclude_common_files", "slim_exclude_folders",
                           "slim_exclude_ext", "slim_exclude_extra_folders" },
        exclude_common_folders |-> ecf,
        exclude_common_files |-> ef,
        slim_exclude_folders |-> sf,
        slim_exclude_ext |-> se,
        slim_exclude_extra_folders |-> sx ] :
      ks \in { {}, {"exclude_common_folders"} },
      ecf \in { {}, {"_logs"}, {"_logs", "_truth", "_ai_index", "_truth_drafts"} },
      ef \in { {}, {"a.txt"} },
      sf \in { {}, {"app"} },
      se \in { {}, {".log"}, {".TXT"} },
      sx \in { {}, {"tools"} } }

\* One include / exclude decision by every consumer of the policy
InitDecide ==
    /\ TRUTH_MD = WriteText(InitLedger(1, TRUE), "LF")
    /\ VERSION_PY = WriteText(MarkerLines(PROJECT, 1), "LF")
    /\ truth_phases_required = TRUE
    /\ os_linesep = "LF"
    /\ draft_dir = EmptyDir
    /\ zip_root = {}
    /\ backup_root = {}
    /\ pc = "idle"
    /\ NoRun
    /\ policy \in PolicyDocs
    /\ tree = {}
    /\ pk = NoPk

\* the decisions on one path: the canonical enumerator with Config.load (as
\* update_repo_map and the verifier call it), the archive builder's call
\* (make_zip gets confirm_draft's / mint_truth's TruthConfig), the backup
\* builder and the index builder
decide ==
    /\ pk.at = "idle"
    /\ \E rel \in Paths :
          pk' = [ at |-> "decided",
                  rel |-> rel,
                  canonical |-> should_exclude(rel, Config_load(policy), FALSE, {}),
                  zip_full |-> should_exclude(rel, TruthConfig_load(policy), FALSE, {}),
                  zip_slim |-> should_exclude(rel, TruthConfig_load(policy), TRUE, {}),
                  backup |-> _should_exclude(rel, policy),
                  index |-> _should_skip(rel, Config_load(policy)) ]
    /\ UNCHANGED <<fs, loc, pc, os_linesep, truth_phases_required, policy, tree>>

SpecDecide == InitDecide /\ [][decide]_vars

----------------------------------------------------------------------------
(* tools/validate_truth_zip.py: an archive is its namelist, every member   *)
(* name the sequence of its "/"-separated components                        *)

MaxMembers == 3    \* members of an archive given to validate_truth_zip

\* str.lower() of a path
LowerPath(rel) == [i \in DOMAIN rel |-> Lower(rel[i])]

\* n.startswith(prefix) for a prefix "<c1>/<c2>/.../"
StartsWith(n, prefix) ==
    Len(n) > Len(prefix) /\ SubSeq(n, 1, Len(prefix)) = prefix

\* the member names of the studied archives of project Foo
MemberNames ==
    { << PROJECT, "app", "a.txt" >>, << PROJECT, "app", "A.txt" >>,
      << PROJECT, "tools", "a.txt" >>, << PROJECT, "a.txt" >>,
      << "Bar", "app", "a.txt" >>, << "a.txt" >> }

Namelists == UNION { [1..n -> MemberNames] : n \in 0..MaxMembers }

\* validate_truth_zip on an existing archive: "ok" or the error raised
validate_truth_zip(names, zip_project) ==
    LET prefix == << zip_project >>
        bad == { i \in DOMAIN names : ~StartsWith(names[i], prefix) }
        has_core == \E i \in DOMAIN names :
                       \/ StartsWith(names[i], prefix \o << "app" >>)
                       \/ StartsWith(names[i], prefix \o << "tools" >>)
    IN  IF names = << >> THEN "truth zip is empty"
        ELSE IF Cardinality({ names[i] : i \in DOMAIN names }) # Len(names)
             THEN "duplicate archive paths"
        ELSE IF bad # {} THEN "entries not nested"
        ELSE IF ~has_core THEN "missing expected core folders"
        ELSE "ok"

InitValidate ==
    /\ TRUTH_MD = WriteText(InitLedger(1, TRUE), "LF")
    /\ VERSION_PY = WriteText(MarkerLines(PROJECT, 1), "LF")
    /\ truth_phases_required = TRUE
    /\ os_linesep = "LF"
    /\ draft_dir = EmptyDir
    /\ zip_root = {}
    /\ backup_root = {}
    /\ pc = "idle"
    /\ NoRun
    /\ policy = DefaultPolicy
    /\ tree = {}
    /\ \E names \in Namelists : pk = [at |-> "built", names |-> names]

\* validate_truth_zip(<zip_root>/Foo_TRUTH_V<n>_<kind>.zip)
validate ==
    /\ pk.at = "built"
    /\ pk' = [ at |-> "validated", names |-> pk.names,
               result |-> validate_truth_zip(pk.names, PROJECT) ]
    /\ UNCHANGED <<fs, loc, pc, os_linesep, truth_phases_required, policy, tree>>

SpecValidate == InitValidate /\ [][validate]_vars

----------------------------------------------------------------------------
(* tools/repo_walk.py list_repo_files and tools/make_truth_zip.py make_zip, *)
(* on a working tree given as the set of its files' relative paths          *)

MaxFiles == 3      \* files of the working tree

ZipPaths ==
    { << "a.txt" >>, << "A.txt" >>, << "app", "a.txt" >>, << "app", "A.txt" >>,
      << "tools", "a.txt" >>, << "tools", "d.LOG" >> }

Trees == { t \in SUBSET ZipPaths : Cardinality(t) <= MaxFiles }

\* the position of as_posix().lower() in the order of Python strings:
\* "a.txt" < "app/a.txt" < "tools/a.txt" < "tools/d.log"
SortKey(rel) ==
    LET low == LowerPath(rel)
    IN  CASE low = << "a.txt" >> -> 1
          [] low = << "app", "a.txt" >> -> 2
          [] low = << "tools", "a.txt" >> -> 3
          [] low = << "tools", "d.log" >> -> 4

\* the orders in which rglob("*") may yield the files of a tree
RglobOrders(t) ==
    { f \in [1..Cardinality(t) -> t] :
         \A i, j \in 1..Cardinality(t) : i # j => f[i] # f[j] }

\* list.sort(key=...): stable, elements with equal keys keep their order
SortInsert(x, sorted) ==
    LET k == Cardinality({ i \in DOMAIN sorted : SortKey(sorted[i]) <= SortKey(x) })
    IN  SubSeq(sorted, 1, k) \o << x >> \o SubSeq(sorted, k + 1, Len(sorted))

RECURSIVE StableSort(_)
StableSort(seq) ==
    IF seq = << >> THEN << >>
    ELSE SortInsert(seq[Len(seq)], StableSort(SubSeq(seq, 1, Len(seq) - 1)))

RECURSIVE KeepIncluded(_, _, _)
KeepIncluded(seq, cfg, slim) ==
    IF seq = << >> THEN << >>
    ELSE LET rest == KeepIncluded(Tail(seq), cfg, slim)
         IN  IF should_exclude(Head(seq), cfg, slim, {}) THEN rest
             ELSE << Head(seq) >> \o rest

\* list_repo_files(cfg, slim=slim).files, rglob yielding the files in the
\* order rglob_order
list_repo_files(rglob_order, cfg, slim) ==
    StableSort(KeepIncluded(rglob_order, cfg, slim))

\* a faulty variant: the duplicate test on the archive path as it is
ArcKey_as_is(arc) == arc

\* key = arc.lower()
ArcKey(arc) == LowerPath(arc)

NoArchive == [ exists |-> FALSE, complete |-> FALSE, members |-> << >> ]

\* a release archive left at the target path by an earlier build
OldArchive ==
    [ exists |-> TRUE, complete |-> TRUE,
      members |-> << << PROJECT, "app", "a.txt" >> >> ]

ZipPolicies ==
    { d \in PolicyDocs :
        /\ d.keys = { "exclude_common_files", "slim_exclude_folders",
                      "slim_exclude_ext", "slim_exclude_extra_folders" }
        /\ d.exclude_common_folders = {}
        /\ d.exclude_common_files = {}
        /\ d.slim_exclude_folders = {}
        /\ d.slim_exclude_extra_folders = {} }

InitZip ==
    /\ TRUTH_MD = WriteText(InitLedger(1, TRUE), "LF")
    /\ VERSION_PY = WriteText(MarkerLines(PROJECT, 1), "LF")
    /\ truth_phases_required = TRUE
    /\ os_linesep = "LF"
    /\ draft_dir = EmptyDir
    /\ zip_root = {}
    /\ backup_root = {}
    /\ pc = "idle"
    /\ NoRun
    /\ policy \in ZipPolicies
    /\ tree \in Trees
    /\ \E old \in { NoArchive, OldArchive } :
          pk = [ at |-> "idle", runs |-> << >>, slim |-> FALSE, files |-> << >>,
                 seen_lower |-> {}, tmp |-> NoArchive, target |-> old,
                 before |-> old, raised |-> "none" ]

\* one run of list_repo_files(Config.load(), slim=False) on the tree
list_files ==
    /\ pk.at \in { "idle", "listed" }
    /\ Len(pk.runs) < 2
    /\ \E rglob_order \in RglobOrders(tree) :
          pk' = [ pk EXCEPT !.at = "listed",
                    !.runs = Append(@, list_repo_files(rglob_order,
                                                       Config_load(policy), FALSE)) ]
    /\ UNCHANGED <<fs, loc, pc, os_linesep, truth_phases_required, policy, tree>>

\* make_zip lines 19-36: both paths unlinked, the files enumerated, the
\* temporary archive opened for writing
mz_begin ==
    /\ pk.at = "idle"
    /\ \E slim \in BOOLEAN, rglob_order \in RglobOrders(tree) :
          pk' = [ pk EXCEPT !.at = "writing", !.slim = slim,
                    !.target = NoArchive,
                    !.files = list_repo_files(rglob_order,
                                              TruthConfig_load(policy), slim),
                    !.seen_lower = {},
                    !.tmp = [ exists |-> TRUE, complete |-> FALSE,
                              members |-> << >> ] ]
    /\ UNCHANGED <<fs, loc, pc, os_linesep, truth_phases_required, policy, tree>>

\* make_zip lines 37-48: one round of the loop over wr.files
mz_write ==
    /\ pk.at = "writing"
    /\ Len(pk.tmp.members) < Len(pk.files)
    /\ LET arc == << PROJECT >> \o pk.files[Len(pk.tmp.members) + 1]
           key == ArcKey(arc)
       IN  pk' = IF key \in pk.seen_lower
                 THEN [ pk EXCEPT !.at = "failed",
                          !.raised = "duplicate archive path" ]
                 ELSE [ pk EXCEPT !.seen_lower = @ \cup { key },
                          !.tmp.members = Append(@, arc) ]
    /\ UNCHANGED <<fs, loc, pc, os_linesep, truth_phases_required, policy, tree>>

\* make_zip lines 36, 50-51: the archive is closed and renamed into place
mz_replace ==
    /\ pk.at = "writing"
    /\ Len(pk.tmp.members) = Len(pk.files)
    /\ pk' = [ pk EXCEPT !.at = "done", !.tmp = NoArchive,
                 !.target = [ exists |-> TRUE, complete |-> TRUE,
                              members |-> pk.tmp.members ] ]
    /\ UNCHANGED <<fs, loc, pc, os_linesep, truth_phases_required, policy, tree>>

NextZip == list_files \/ mz_begin \/ mz_write \/ mz_replace

SpecZip == InitZip /\ [][NextZip]_vars

----------------------------------------------------------------------------
(* tools/verify_truth.py main, phase post: the checks of the archives and   *)
(* of the before_confirm backup (lines 539-547)                             *)

\* the member names of the studied SLIM archives
SlimMemberNames ==
    { << PROJECT, "app", "a.txt" >>, << PROJECT, "tools", "a.txt" >>,
      << PROJECT, "tools", "d.LOG" >>, << PROJECT, "_logs", "a.txt" >> }

SlimNamelists == UNION { [1..n -> SlimMemberNames] : n \in 0..MaxMembers }

\* getattr(cfg, name, default) where cfg is the dict json.loads returned:
\* a dict has no attribute named after a policy key, the default is returned
GetAttr(data, name, default) == default

\* verify_slim_contents: TRUE when it calls fail()
verify_slim_contents_fails(names, data) ==
    LET forbidden_folders ==
            GetAttr(data, "exclude_common_folders", {})
               \cup GetAttr(data, "slim_exclude_folders", {})
               \cup GetAttr(data, "slim_exclude_extra_folders", {})
        forbidden_exts == { Lower(x) : x \in GetAttr(data, "slim_exclude_ext", {}) }
        offender(n) ==
            \/ \E i \in 1..(Len(n) - 1) : n[i] \in forbidden_folders
            \/ /\ Lower(Suffix(NameOf(n))) # ""
               /\ Lower(Suffix(NameOf(n))) \in forbidden_exts
    IN  \E i \in DOMAIN names : offender(names[i])

\* _truth/last_before_confirm_backup.json
Markers == { "absent", "not json", "no backup_zip", "names backup" }

\* the backup archive the marker names: whether the file exists, its
\* top-level folders, the shape of the "files" member of its manifest
\* ("dict" is what build_repo_backup_zip writes), and whether the recorded
\* hashes equal the hashes of the archived bytes
Backups ==
    [ exists : BOOLEAN, roots : { {PROJECT}, {PROJECT, "Bar"} },
      manifest : { "none", "dict", "list" }, hashes_match : BOOLEAN ]

\* validate_backup_zip: every failure is put in the report, no exception
\* leaves the function (lines 65-68, 133-138)
validate_backup_zip(b) ==
    [ raises |-> FALSE,
      ok |-> /\ b.exists
             /\ Cardinality(b.roots) = 1
             /\ \/ b.manifest = "none"
                \/ b.manifest = "list" /\ b.hashes_match ]

\* verify_last_before_confirm_backup_if_present: TRUE when it calls fail()
verify_last_backup_fails(mk, b) ==
    CASE mk = "absent" -> FALSE
      [] mk = "not json" -> TRUE
      [] mk = "no backup_zip" -> TRUE
      [] OTHER -> validate_backup_zip(b).raises

PostPolicies ==
    { d \in PolicyDocs :
        /\ "exclude_common_folders" \in d.keys
        /\ d.exclude_common_folders = { "_logs" }
        /\ d.exclude_common_files = {}
        /\ d.slim_exclude_folders = {}
        /\ d.slim_exclude_extra_folders = { "tools" } }

InitPost ==
    /\ TRUTH_MD = WriteText(InitLedger(1, TRUE), "LF")
    /\ VERSION_PY = WriteText(MarkerLines(PROJECT, 1), "LF")
    /\ truth_phases_required = TRUE
    /\ os_linesep = "LF"
    /\ draft_dir = EmptyDir
    /\ zip_root = { ZipName(1, "FULL"), ZipName(1, "SLIM") }
    /\ backup_root = {}
    /\ pc = "idle"
    /\ NoRun
    /\ policy \in PostPolicies
    /\ tree = {}
    /\ \E names \in SlimNamelists, mk \in Markers, b \in Backups :
          pk = [ at |-> "built", slim |-> names, marker |-> mk, backup |-> b,
                 result |-> "none" ]

\* verify_truth.main lines 539-547, the checks before them having passed and
\* the FULL archive being well-formed
verify_artifacts ==
    /\ pk.at = "built"
    /\ pk' = [ pk EXCEPT !.at = "verified",
                 !.result =
                    IF ~verify_truth_zip_naming(zip_root, 1)
                       THEN "missing artifact"
                    ELSE IF validate_truth_zip(pk.slim, PROJECT) # "ok"
                       THEN validate_truth_zip(pk.slim, PROJECT)
                    ELSE IF verify_slim_contents_fails(pk.slim, policy)
                       THEN "SLIM zip contains forbidden content"
                    ELSE IF verify_last_backup_fails(pk.marker, pk.backup)
                       THEN "backup marker or backup zip invalid"
                    ELSE "ok" ]
    /\ UNCHANGED <<fs, loc, pc, os_linesep, truth_phases_required, policy, tree>>

SpecPost == InitPost /\ [][verify_artifacts]_vars

----------------------------------------------------------------------------
(* tools/repo_backup.py build_repo_backup_zip, on a working tree given as   *)
(* its files' relative paths and their bytes                                *)

\* the bytes of the studied files
FileBytes == { << >>, << 1 >>, << 2, 2 >> }

\* hashlib.sha256(...).hexdigest(): distinct bytes, distinct digests
Sha256(bytes) == << "sha256", bytes >>

\* p.stat().st_size
StSize(bytes) == Len(bytes)

_MANIFEST_NAME == "BACKUP_MANIFEST.json"

RECURSIVE KeepForBackup(_, _)
KeepForBackup(seq, data) ==
    IF seq = << >> THEN << >>
    ELSE LET rest == KeepForBackup(Tail(seq), data)
         IN  IF _should_exclude(Head(seq), data) THEN rest
             ELSE << Head(seq) >> \o rest

\* _iter_repo_files_for_backup(cfg), rglob yielding the files in the order
\* rglob_order
_iter_repo_files_for_backup(rglob_order, data) ==
    StableSort(KeepForBackup(rglob_order, data))

\* a faulty variant: the manifest keyed by the lower-cased path
ManifestKey_lower(rel) == LowerPath(rel)

\* the key of manifest["files"]: rel = p.relative_to(REPO_ROOT).as_posix()
ManifestKey(rel) == rel

\* manifest["files"][k] = {"sha256": h, "bytes": n} on a dict
DictPut(files, k, h, n) ==
    { e \in files : e.path # k } \cup { [ path |-> k, sha256 |-> h, bytes |-> n ] }

FileMember(arc, bytes) ==
    [ kind |-> "file", name |-> arc, data |-> bytes, files |-> {} ]

ManifestMember(arc, files) ==
    [ kind |-> "manifest", name |-> arc, data |-> << >>, files |-> files ]

BackupPolicies ==
    { d \in PolicyDocs :
        /\ d.keys = { "exclude_common_files", "slim_exclude_folders",
                      "slim_exclude_ext", "slim_exclude_extra_folders" }
        /\ d.exclude_common_folders = {}
        /\ d.slim_exclude_folders = {}
        /\ d.slim_exclude_ext = {}
        /\ d.slim_exclude_extra_folders = {} }

InitBackup ==
    /\ TRUTH_MD = WriteText(InitLedger(1, TRUE), "LF")
    /\ VERSION_PY = WriteText(MarkerLines(PROJECT, 1), "LF")
    /\ truth_phases_required = TRUE
    /\ os_linesep = "LF"
    /\ draft_dir = EmptyDir
    /\ zip_root = {}
    /\ backup_root = {}
    /\ pc = "idle"
    /\ NoRun
    /\ policy \in BackupPolicies
    /\ tree \in Trees
    /\ \E bytes \in [tree -> FileBytes] :
          pk = [ at |-> "idle", bytes |-> bytes, files |-> << >>, done |-> 0,
                 manifest_files |-> {}, tmp_zip |-> << >>,
                 out_exists |-> FALSE, out_zip |-> << >> ]

\* build_repo_backup_zip lines 79-100: the files enumerated, the manifest
\* created with no entry, the temporary archive opened
bk_begin ==
    /\ pk.at = "idle"
    /\ \E rglob_order \in RglobOrders(tree) :
          pk' = [ pk EXCEPT !.at = "writing",
                    !.files = _iter_repo_files_for_backup(rglob_order, policy) ]
    /\ UNCHANGED <<fs, loc, pc, os_linesep, truth_phases_required, policy, tree>>

\* lines 101-108: one round of the loop over files
bk_write ==
    /\ pk.at = "writing"
    /\ pk.done < Len(pk.files)
    /\ LET rel == pk.files[pk.done + 1]
           arc == << PROJECT >> \o rel
       IN  pk' = [ pk EXCEPT !.done = @ + 1,
                     !.tmp_zip = Append(@, FileMember(arc, pk.bytes[rel])),
                     !.manifest_files =
                        DictPut(@, ManifestKey(rel), Sha256(pk.bytes[rel]),
                                StSize(pk.bytes[rel])) ]
    /\ UNCHANGED <<fs, loc, pc, os_linesep, truth_phases_required, policy, tree>>

\* line 110: the manifest written into the archive
bk_manifest ==
    /\ pk.at = "writing"
    /\ pk.done = Len(pk.files)
    /\ pk' = [ pk EXCEPT !.at = "closing",
                 !.tmp_zip = Append(@, ManifestMember(<< PROJECT, _MANIFEST_NAME >>,
                                                      pk.manifest_files)) ]
    /\ UNCHANGED <<fs, loc, pc, os_linesep, truth_phases_required, policy, tree>>

\* lines 112-114: the temporary archive renamed to the backup's name
bk_replace ==
    /\ pk.at = "closing"
    /\ pk' = [ pk EXCEPT !.at = "done", !.out_exists = TRUE,
                 !.out_zip = pk.tmp_zip, !.tmp_zip = << >> ]
    /\ UNCHANGED <<fs, loc, pc, os_linesep, truth_phases_required, policy, tree>>

NextBackup == bk_begin \/ bk_write \/ bk_manifest \/ bk_replace

SpecBackup == InitBackup /\ [][NextBackup]_vars

----------------------------------------------------------------------------
(* tools/verify_truth.py: the ledger checks of main (parse_truth_md,        *)
(* verify_truth_sequence, verify_truth_md_format) on arbitrary documents    *)

MaxDocLen == 5     \* lines of a ledger document given to the verifier

\* the lines of the studied documents; PHASE stands for a line "PHASE PRE"
\* or "PHASE POST"
FormatAlphabet ==
    { Hdr(PROJECT, 1), Hdr(PROJECT, 2), Ln("PRE"), Ln("POST"), Ln("LOCKED"),
      Ln("NOTES"), Ln("END"), Ln("PHASE") }

FormatDocs == UNION { [1..n -> FormatAlphabet] : n \in 1..MaxDocLen }

\* verify_truth_md_format, which starts with parse_truth_md
format_verified(lines, phases_required) ==
    parse_truth_md_ok(lines) /\ verify_truth_md_format(lines, phases_required)

\* the ledger checks of verify_truth.main, lines 520-528
ledger_verified(lines, phases_required) ==
    /\ parse_truth_md_ok(lines)
    /\ verify_truth_sequence(parse_truth_md(lines))
    /\ verify_truth_md_format(lines, phases_required)

InitFormat ==
    /\ \E doc \in FormatDocs : TRUTH_MD = WriteText(doc, "LF")
    /\ VERSION_PY = WriteText(MarkerLines(PROJECT, 1), "LF")
    /\ truth_phases_required \in BOOLEAN
    /\ os_linesep = "LF"
    /\ draft_dir = EmptyDir
    /\ zip_root = {}
    /\ backup_root = {}
    /\ pc = "idle"
    /\ NoRun
    /\ policy = DefaultPolicy
    /\ tree = {}
    /\ pk = [ at |-> "written", format_ok |-> FALSE, ok |-> FALSE ]

verify_ledger ==
    /\ pk.at = "written"
    /\ pk' = [ at |-> "verified",
               format_ok |-> format_verified(ReadText(TRUTH_MD),
                                             truth_phases_required),
               ok |-> ledger_verified(ReadText(TRUTH_MD), truth_phases_required) ]
    /\ UNCHANGED <<fs, loc, pc, os_linesep, truth_phases_required, policy, tree>>

SpecFormat == InitFormat /\ [][verify_ledger]_vars

\* The two places where the phases flag is enforced, the flag being set:
\* the verifier on a document, the append on a statement text
InitPhases ==
    /\ InitFormat \/ InitAppend
    /\ truth_phases_required = TRUE

NextPhases == verify_ledger \/ append

SpecPhases == InitPhases /\ [][NextPhases]_vars

\* documents for the document-level checks: headers of two projects
SequenceAlphabet ==
    { Hdr(PROJECT, v) : v \in 1..MaxVer } \cup { Hdr("Bar", 1), Hdr("Bar", 2) }
       \cup { Ln("END") }

SequenceDocs == UNION { [1..n -> SequenceAlphabet] : n \in 1..MaxDocLen }

InitSequence ==
    /\ \E doc \in SequenceDocs : TRUTH_MD = WriteText(doc, "LF")
    /\ VERSION_PY = WriteText(MarkerLines(PROJECT, 1), "LF")
    /\ truth_phases_required = FALSE
    /\ os_linesep = "LF"
    /\ draft_dir = EmptyDir
    /\ zip_root = {}
    /\ backup_root = {}
    /\ pc = "idle"
    /\ NoRun
    /\ policy = DefaultPolicy
    /\ tree = {}
    /\ pk = [ at |-> "written", ok |-> FALSE ]

\* verify_truth.main lines 520-521: parse_truth_md, verify_truth_sequence
verify_sequence ==
    /\ pk.at = "written"
    /\ pk' = [ at |-> "verified",
               ok |-> /\ parse_truth_md_ok(ReadText(TRUTH_MD))
                      /\ verify_truth_sequence(parse_truth_md(ReadText(TRUTH_MD))) ]
    /\ UNCHANGED <<fs, loc, pc, os_linesep, truth_phases_required, policy, tree>>

SpecSequence == InitSequence /\ [][verify_sequence]_vars

----------------------------------------------------------------------------
(* tools/repair_truth_md.py *)

\* TRUTH_HEADER_RE of the repair tool: "TRUTH", an ASCII hyphen, the project
\* and the version, at the start of the stripped line
RepairHeader(line) == line.k = "HDR" /\ line.f \in {"plain"} \cup TypeTags

\* starts: the indices of the header lines, in document order
RepairStarts(lines) == SortedSeq({ i \in DOMAIN lines : RepairHeader(lines[i]) })

\* entry_slice(si, sj): the entry's lines, its header included
entry_slice(lines, starts, idx) ==
    SubSeq(lines, starts[idx],
           IF idx < Len(starts) THEN starts[idx + 1] - 1 ELSE Len(lines))

\* the entries without an END line, by position in starts
NoEndEntries(lines) ==
    LET starts == RepairStarts(lines)
    IN  { idx \in DOMAIN starts : ~HasMarker(entry_slice(lines, starts, idx), "END") }

\* a faulty variant: the header of the truncated entry is kept
RepairCut_keeps_header(lines, si) == SubSeq(lines, 1, si)

\* lines = lines[:si]
RepairCut(lines, si) == SubSeq(lines, 1, si - 1)

\* a faulty variant: an unterminated entry is truncated wherever it is
RepairAborts_never(idx, starts) == FALSE

\* line 49: the unterminated entry is not the last one
RepairAborts(idx, starts) == idx < Len(starts)

\* "\n".join(lines).rstrip("\n") + "\n"
RepairOut(lines) == IF RStripNl(lines) = << >> THEN << BLANK >> ELSE RStripNl(lines)

\* repair_truth_md: what it raises, writes and returns
repair_truth_md(md, py) ==
    LET lines == ReadText(md)
        starts == RepairStarts(lines)
        bad == MinOf(NoEndEntries(lines))
        kept == IF bad = 0 THEN lines ELSE RepairCut(lines, starts[bad])
        out == RepairOut(kept)
        remaining == { out[i].v : i \in { j \in DOMAIN out : RepairHeader(out[j]) } }
    IN  IF starts = << >>
        THEN [ raised |-> FALSE, md |-> md, py |-> py, truncated |-> 0 ]
        ELSE IF bad # 0 /\ RepairAborts(bad, starts)
        THEN [ raised |-> TRUE, md |-> md, py |-> py, truncated |-> 0 ]
        ELSE [ raised |-> FALSE,
               md |-> WriteTextLF(out),
               py |-> write_truth_version(py, MaxOf(remaining)),
               truncated |-> IF bad = 0 THEN 0 ELSE lines[starts[bad]].v ]

RepairAlphabet ==
    { Hdr(PROJECT, v) : v \in 1..MaxVer } \cup { Ln("END"), Ln("TEXT"), BLANK }

RepairDocs == UNION { [1..n -> RepairAlphabet] : n \in 1..MaxDocLen }

InitRepair ==
    /\ \E doc \in RepairDocs, e0 \in EolStyles :
          /\ TRUTH_MD = WriteText(doc, e0)
          /\ VERSION_PY = WriteText(MarkerLines(PROJECT, MaxVer), e0)
          /\ pk = [ at |-> "damaged", raised |-> FALSE, truncated |-> 0,
                    md_before |-> WriteText(doc, e0),
                    py_before |-> WriteText(MarkerLines(PROJECT, MaxVer), e0) ]
    /\ truth_phases_required = FALSE
    /\ os_linesep = "LF"
    /\ draft_dir = EmptyDir
    /\ zip_root = {}
    /\ backup_root = {}
    /\ pc = "idle"
    /\ NoRun
    /\ policy = DefaultPolicy
    /\ tree = {}

repair ==
    /\ pk.at = "damaged"
    /\ LET r == repair_truth_md(TRUTH_MD, VERSION_PY)
       IN  /\ TRUTH_MD' = r.md
           /\ VERSION_PY' = r.py
           /\ pk' = [ pk EXCEPT !.at = "repaired", !.raised = r.raised,
                        !.truncated = r.truncated ]
    /\ UNCHANGED <<draft_dir, zip_root, backup_root, loc, pc, os_linesep,
                   truth_phases_required, policy, tree>>

SpecRepair == InitRepair /\ [][repair]_vars

----------------------------------------------------------------------------
(* tools/truth_manager.py: set_truth_type_tag and reseed_truth_epoch *)

\* set_truth_type_tag: "none" is type_tag None; "ok" or the error raised
set_type_check(md, ver, type_tag) ==
    IF type_tag \notin TypeTags \cup {"none"} THEN "bad type_tag"
    ELSE IF ~\E i \in DOMAIN md : MgrHeader(md[i].c) /\ md[i].c.v = ver
         THEN "header not found"
    ELSE "ok"

\* set_truth_type_tag: TRUTH.md after a successful call; every header of the
\* version is rewritten as "TRUTH - <proj> (TRUTH_V<ver>)" plus the tag
set_truth_type_tag(md, ver, type_tag) ==
    LET txt == ReadText(md)
        out_lines == [ i \in DOMAIN txt |->
            IF MgrHeader(txt[i]) /\ txt[i].v = ver
            THEN HdrF(txt[i].p, ver, IF type_tag = "none" THEN "plain" ELSE type_tag)
            ELSE txt[i] ]
    IN  WriteTextLF(IF RStripNl(out_lines) = << >> THEN << BLANK >>
                    ELSE RStripNl(out_lines))

\* _d_epoch_truth_v1: the seed entry, between separator lines
_d_epoch_truth_v1(proj) ==
    << Ln("SEP"), Hdr(proj, 1), Ln("SEP"), BLANK,
       Ln("PRE"), Ln("TEXT"), Ln("TEXT"), Ln("TEXT"), Ln("TEXT"), BLANK,
       Ln("POST"), Ln("TEXT"), Ln("TEXT"), Ln("TEXT"), BLANK, Ln("END") >>

\* where reseed_truth_epoch may raise once --force is given
ReseedFailures == { "none", "legacy", "config", "bump", "write", "index", "verify" }

NoOp == [ at |-> "idle", op |-> "none", md_before |-> << >>, py_before |-> << >>,
          flag_before |-> FALSE, raised |-> "none" ]

InitLedgerOps ==
    /\ \E n \in 1..MaxVer, ph \in BOOLEAN, e0 \in EolStyles :
          /\ TRUTH_MD = WriteText(InitLedger(n, ph), e0)
          /\ VERSION_PY = WriteText(MarkerLines(PROJECT, n), e0)
          /\ truth_phases_required = ph
    /\ os_linesep = "LF"
    /\ draft_dir = EmptyDir
    /\ zip_root = {}
    /\ backup_root = {}
    /\ pc = "idle"
    /\ NoRun
    /\ policy = DefaultPolicy
    /\ tree = {}
    /\ pk = [ NoOp EXCEPT !.at = "idle" ] @@ [ legacy |-> << >> ]

\* what the operation found when it was called
Called(o, raised) ==
    [ at |-> "done", op |-> o, md_before |-> TRUTH_MD, py_before |-> VERSION_PY,
      flag_before |-> truth_phases_required, raised |-> raised ]

\* main, cmd == "set-type"
set_type ==
    /\ pk.at = "idle"
    /\ \E ver \in 1..MaxVer, type_tag \in TypeTags \cup {"none", "OTHER"} :
          LET res == set_type_check(TRUTH_MD, ver, type_tag)
          IN  /\ TRUTH_MD' = IF res = "ok"
                             THEN set_truth_type_tag(TRUTH_MD, ver, type_tag)
                             ELSE TRUTH_MD
              /\ pk' = Called("set-type", IF res = "ok" THEN "none" ELSE res)
                          @@ [ legacy |-> pk.legacy ]
    /\ UNCHANGED <<VERSION_PY, draft_dir, zip_root, backup_root, loc, pc,
                   os_linesep, truth_phases_required, policy, tree>>

\* main, cmd == "reseed": without --force nothing is touched; with it the
\* ledger is copied to TRUTH_LEGACY.md and unlinked (no bytes at TRUTH.md),
\* the flag set, the marker reset and the seed written, as far as the run gets
reseed ==
    /\ pk.at = "idle"
    /\ \E force \in BOOLEAN, fail_at \in ReseedFailures :
          IF ~force \/ fail_at = "legacy"
          THEN /\ UNCHANGED <<TRUTH_MD, VERSION_PY, truth_phases_required>>
               /\ pk' = Called(IF force THEN "reseed --force" ELSE "reseed",
                               IF force THEN fail_at ELSE "reseed requires --force")
                           @@ [ legacy |-> pk.legacy ]
          ELSE /\ TRUTH_MD' = IF fail_at \in { "config", "bump", "write" }
                              THEN << >>
                              ELSE WriteTextLF(_d_epoch_truth_v1(project))
               /\ truth_phases_required' =
                     IF fail_at = "config" THEN truth_phases_required ELSE TRUE
               /\ VERSION_PY' = IF fail_at \in { "config", "bump" }
                                THEN VERSION_PY
                                ELSE write_truth_version(VERSION_PY, 1)
               /\ pk' = Called("reseed --force", fail_at)
                           @@ [ legacy |-> WriteTextLF(ReadText(TRUTH_MD)) ]
    /\ UNCHANGED <<draft_dir, zip_root, backup_root, loc, pc, os_linesep,
                   policy, tree>>

\* control returns to the caller
ops_return ==
    /\ pk.at = "done"
    /\ TRUTH_MD # << >>
    /\ pk' = NoOp @@ [ legacy |-> pk.legacy ]
    /\ UNCHANGED <<fs, loc, pc, os_linesep, truth_phases_required, policy, tree>>

NextLedgerOps == set_type \/ reseed \/ ops_return

SpecLedgerOps == InitLedgerOps /\ [][NextLedgerOps]_vars

----------------------------------------------------------------------------
(* Path.write_text on TRUTH.md and app/version.py: the target itself is
   opened for writing, which truncates it, the text is written to it and it
   is closed; there is no temporary file and no rename.  A write is modelled
   as open, one step per line written, close; the process can die at any
   point between open and close *)

WriteSites == { "append", "bump", "restore_md", "restore_py", "set-type",
                "repair_md", "repair_py", "reseed_py", "reseed_md" }

\* the file a write site writes
WriteTarget(site) ==
    IF site \in { "bump", "restore_py", "repair_py", "reseed_py" }
    THEN "py" ELSE "md"

\* the statement appended by a confirm at version nv
WriteBlock(nv, phased) ==
    IF phased THEN << Hdr(PROJECT, nv), Ln("PRE"), Ln("POST"), Ln("END") >>
    ELSE << Hdr(PROJECT, nv), Ln("LOCKED"), Ln("END") >>

\* where the running command stands when the site is reached: "none" between
\* commands, "appended" .. "restored_md" inside confirm_draft and its except
\* block, "repairing" inside repair_truth_md, "reseeding" inside
\* reseed_truth_epoch
WriteEnabled(site, ver, tag) ==
    CASE site = "append" ->
            /\ pk.txn \in { "none", "bumped" }
            /\ cur_ver < MaxVer
            /\ AppendCheck(project, cur_ver + 1,
                           WriteBlock(cur_ver + 1, truth_phases_required),
                           truth_phases_required) = "ok"
      [] site = "bump" -> pk.txn = "appended"
      [] site = "restore_md" -> pk.txn \in { "appended", "bumped" }
      [] site = "restore_py" -> pk.txn = "restored_md"
      [] site = "set-type" ->
            /\ pk.txn \in { "none", "bumped" }
            /\ set_type_check(TRUTH_MD, ver, tag) = "ok"
      [] site = "repair_md" ->
            /\ pk.txn \in { "none", "bumped" }
            /\ RepairStarts(ReadText(TRUTH_MD)) # << >>
            /\ ~repair_truth_md(TRUTH_MD, VERSION_PY).raised
      [] site = "repair_py" -> pk.txn = "repairing"
      [] site = "reseed_py" -> pk.txn \in { "none", "bumped" }
      [] site = "reseed_md" -> pk.txn = "reseeding"

\* the bytes handed to write_text at the site
WriteNew(site, ver, tag) ==
    CASE site = "append" ->
            append_truth_md_verbatim(TRUTH_MD,
                WriteBlock(cur_ver + 1, truth_phases_required))
      [] site = "bump" -> write_truth_version(VERSION_PY, cur_ver + 1)
      [] site = "restore_md" -> RestoreFile(pk.snap_md, os_linesep)
      [] site = "restore_py" -> RestoreFile(pk.snap_py, os_linesep)
      [] site = "set-type" -> set_truth_type_tag(TRUTH_MD, ver, tag)
      [] site = "repair_md" -> repair_truth_md(TRUTH_MD, VERSION_PY).md
      [] site = "repair_py" -> repair_truth_md(TRUTH_MD, VERSION_PY).py
      [] site = "reseed_py" -> write_truth_version(VERSION_PY, 1)
      [] site = "reseed_md" -> WriteTextLF(_d_epoch_truth_v1(project))

\* where the command stands once the write at the site has returned
TxnAfter(site) ==
    CASE site = "append" -> "appended"
      [] site = "bump" -> "bumped"
      [] site = "restore_md" -> "restored_md"
      [] site = "repair_md" -> "repairing"
      [] site = "reseed_py" -> "reseeding"
      [] OTHER -> "none"

InitWrite ==
    /\ \E n \in 1..MaxVer, ph \in BOOLEAN, e0 \in EolStyles :
          /\ TRUTH_MD = WriteText(InitLedger(n, ph), e0)
          /\ VERSION_PY = WriteText(MarkerLines(PROJECT, n), e0)
          /\ truth_phases_required = ph
    /\ os_linesep \in LineSeps
    /\ draft_dir = EmptyDir
    /\ zip_root = {}
    /\ backup_root = {}
    /\ pc = "idle"
    /\ NoRun
    /\ policy = DefaultPolicy
    /\ tree = {}
    /\ pk = [ at |-> "idle", site |-> "none", txn |-> "none", old |-> << >>,
              new |-> << >>, n |-> 0, snap_md |-> << >>, snap_py |-> << >> ]

\* open(target, "w"): the target is truncated before anything is written.
\* confirm_draft has read both files before its append; reseed_truth_epoch
\* has unlinked TRUTH.md and set the phases flag before its first write
wt_open ==
    /\ pk.at = "idle"
    /\ \E site \in WriteSites, ver \in 1..MaxVer, tag \in { "CONFIRM", "none" } :
          /\ site # "set-type" => (ver = 1 /\ tag = "none")
          /\ WriteEnabled(site, ver, tag)
          /\ pk' = [ pk EXCEPT
                !.at = "open", !.site = site, !.n = 0,
                !.old = IF WriteTarget(site) = "md" THEN TRUTH_MD ELSE VERSION_PY,
                !.new = WriteNew(site, ver, tag),
                !.snap_md = IF site = "append" THEN ReadText(TRUTH_MD) ELSE @,
                !.snap_py = IF site = "append" THEN ReadText(VERSION_PY) ELSE @ ]
          /\ TRUTH_MD' = IF WriteTarget(site) = "md" \/ site = "reseed_py"
                         THEN << >> ELSE TRUTH_MD
          /\ VERSION_PY' = IF WriteTarget(site) = "py" THEN << >> ELSE VERSION_PY
          /\ truth_phases_required' =
                IF site = "reseed_py" THEN TRUE ELSE truth_phases_required
    /\ UNCHANGED <<draft_dir, zip_root, backup_root, loc, pc, os_linesep,
                   policy, tree>>

\* the next line of the text reaches the file
wt_write ==
    /\ pk.at = "open"
    /\ pk.n < Len(pk.new)
    /\ pk' = [ pk EXCEPT !.n = @ + 1 ]
    /\ IF WriteTarget(pk.site) = "md"
       THEN TRUTH_MD' = Append(TRUTH_MD, pk.new[pk.n + 1]) /\ UNCHANGED VERSION_PY
       ELSE VERSION_PY' = Append(VERSION_PY, pk.new[pk.n + 1]) /\ UNCHANGED TRUTH_MD
    /\ UNCHANGED <<draft_dir, zip_root, backup_root, loc, pc, os_linesep,
                   truth_phases_required, policy, tree>>

\* the file is closed and write_text returns
wt_close ==
    /\ pk.at = "open"
    /\ pk.n = Len(pk.new)
    /\ pk' = [ pk EXCEPT !.at = "idle", !.txn = TxnAfter(pk.site) ]
    /\ UNCHANGED <<fs, loc, pc, os_linesep, truth_phases_required, policy, tree>>

\* the process dies while the file is open
crash ==
    /\ pk.at = "open"
    /\ pk' = [ pk EXCEPT !.at = "crashed" ]
    /\ UNCHANGED <<fs, loc, pc, os_linesep, truth_phases_required, policy, tree>>

NextWrite == wt_open \/ wt_write \/ wt_close \/ crash

SpecWrite == InitWrite /\ [][NextWrite]_vars

----------------------------------------------------------------------------
(* tools/truth_manager.py: the draft directory by file name.  A file name
   "<base>_TRUTH_V<a>_TRUTH_V<b>..._DRAFT.txt" is the sequence <<base, a, b, ..>>;
   get_draft_path(project, ver) of a project <<base, ..>> is project \o <<ver>> *)

MaxDrafts == 2     \* files in the draft directory at the start

DraftBases == { "Foo", "Bar" }

\* the project names: plain ones and one that itself ends in _TRUTH_V<n>
DraftProjects ==
    { << b >> : b \in DraftBases } \cup { << "Foo", v >> : v \in 1..MaxVer }

get_draft_path(proj, ver) == proj \o << ver >>

DraftNames == { get_draft_path(q, v) : q \in DraftProjects, v \in 1..MaxVer }

DraftTexts == { << Ln("TEXT") >>, << BLANK, Ln("TEXT"), Ln("END"), BLANK >> }

IsPrefix(a, b) == Len(a) <= Len(b) /\ SubSeq(b, 1, Len(a)) = a

\* ddir.glob(f"{project}_TRUTH_V*_DRAFT.txt"): the * matches any characters
DraftGlob(proj, name) == IsPrefix(proj, name) /\ Len(name) > Len(proj)

\* _DRAFT_FILE_RE: the greedy project group takes everything up to the last
\* _TRUTH_V, the version is the digits after it
DraftFileVer(name) == name[Len(name)]

\* a faulty variant: the first candidate is kept, not the highest
find_pending_draft_in_lowest(proj, ddir) ==
    LET cand == { n \in DOMAIN ddir : DraftGlob(proj, n) }
        best == MinOf({ DraftFileVer(n) : n \in cand })
    IN  { << DraftFileVer(n), n >> : n \in { m \in cand : DraftFileVer(m) = best } }

\* find_pending_draft: the set of (version, path) pairs it may return, the
\* glob order deciding between files of the same version; {} for None
find_pending_draft_in(proj, ddir) ==
    LET cand == { n \in DOMAIN ddir : DraftGlob(proj, n) }
        best == MaxOf({ DraftFileVer(n) : n \in cand })
    IN  { << DraftFileVer(n), n >> : n \in { m \in cand : DraftFileVer(m) = best } }

\* write_draft, lines 309-310
write_draft_raises(proj, ver, ow, ddir) ==
    get_draft_path(proj, ver) \in DOMAIN ddir /\ ~ow

\* write_draft, lines 311-312: the directory after the write
write_draft_to(proj, ver, text, ddir) ==
    [ n \in (DOMAIN ddir) \cup { get_draft_path(proj, ver) } |->
        IF n = get_draft_path(proj, ver) THEN DraftText(text) ELSE ddir[n] ]

\* delete_draft: the directory after it
delete_draft(path, ddir) ==
    IF path \in DOMAIN ddir
    THEN [ n \in (DOMAIN ddir) \ { path } |-> ddir[n] ]
    ELSE ddir

DraftDirs ==
    { [ n \in S |-> << Ln("TEXT") >> ] :
        S \in { T \in SUBSET DraftNames : Cardinality(T) <= MaxDrafts } }

NoCall == [ at |-> "idle", op |-> "none", proj |-> << >>, ver |-> 0,
            text |-> << >>, ow |-> FALSE, path |-> << >>, before |-> EmptyDir,
            raised |-> FALSE, result |-> << >> ]

InitDraft ==
    /\ draft_dir \in DraftDirs
    /\ \E e0 \in EolStyles :
          /\ TRUTH_MD = WriteText(InitLedger(1, FALSE), e0)
          /\ VERSION_PY = WriteText(MarkerLines(PROJECT, 1), e0)
    /\ truth_phases_required = FALSE
    /\ os_linesep = "LF"
    /\ zip_root = {}
    /\ backup_root = {}
    /\ pc = "idle"
    /\ NoRun
    /\ policy = DefaultPolicy
    /\ tree = {}
    /\ pk = NoCall

DraftFrame ==
    UNCHANGED <<TRUTH_MD, VERSION_PY, zip_root, backup_root, loc, pc,
                os_linesep, truth_phases_required, policy, tree>>

call_write_draft ==
    /\ pk.at = "idle"
    /\ \E b \in DraftBases, ver \in 1..MaxVer, text \in DraftTexts, ow \in BOOLEAN :
          /\ draft_dir' = IF write_draft_raises(<< b >>, ver, ow, draft_dir)
                          THEN draft_dir
                          ELSE write_draft_to(<< b >>, ver, text, draft_dir)
          /\ pk' = [ NoCall EXCEPT !.at = "done", !.op = "write_draft",
                       !.proj = << b >>, !.ver = ver, !.text = text, !.ow = ow,
                       !.path = get_draft_path(<< b >>, ver), !.before = draft_dir,
                       !.raised = write_draft_raises(<< b >>, ver, ow, draft_dir) ]
    /\ DraftFrame

call_find_pending_draft ==
    /\ pk.at = "idle"
    /\ \E b \in DraftBases :
          \E r \in IF find_pending_draft_in(<< b >>, draft_dir) = {}
                   THEN { << >> } ELSE find_pending_draft_in(<< b >>, draft_dir) :
             pk' = [ NoCall EXCEPT !.at = "done", !.op = "find_pending_draft",
                       !.proj = << b >>, !.before = draft_dir, !.result = r ]
    /\ UNCHANGED draft_dir
    /\ DraftFrame

call_delete_draft ==
    /\ pk.at = "idle"
    /\ \E path \in DraftNames :
          /\ draft_dir' = delete_draft(path, draft_dir)
          /\ pk' = [ NoCall EXCEPT !.at = "done", !.op = "delete_draft",
                       !.path = path, !.before = draft_dir ]
    /\ DraftFrame

NextDraft == call_write_draft \/ call_find_pending_draft \/ call_delete_draft

SpecDraft == InitDraft /\ [][NextDraft]_vars

----------------------------------------------------------------------------
(* make_zip inside confirm_draft: the except block after a failed build *)

\* confirm_draft lines 544-551: the loop over (full_zip, slim_zip) unlinks
\* the target paths that exist; the temporary build file
\* tmp_<project>_TRUTH_V<new>_{FULL|SLIM}.zip is not among them
mz_rollback ==
    /\ pk.at = "failed"
    /\ pk' = [ pk EXCEPT !.at = "rolled_back", !.target = NoArchive ]
    /\ UNCHANGED <<fs, loc, pc, os_linesep, truth_phases_required, policy, tree>>

NextZipRollback == mz_begin \/ mz_write \/ mz_replace \/ mz_rollback

SpecZipRollback == InitZip /\ [][NextZipRollback]_vars

----------------------------------------------------------------------------
(* The backup archive built by build_repo_backup_zip, given to the validators *)

\* what validate_backup_zip reads of a built archive: its top-level folders,
\* its manifest, whose "files" member build_repo_backup_zip writes as a dict
\* keyed by path, and whether the recorded hashes are those of the members
ArchiveAsBackup(zip) ==
    LET files == UNION { zip[i].files : i \in { j \in DOMAIN zip : zip[j].kind = "manifest" } }
    IN  [ exists |-> TRUE,
          roots |-> { zip[i].name[1] : i \in DOMAIN zip },
          manifest |-> IF \E i \in DOMAIN zip : zip[i].kind = "manifest"
                       THEN "dict" ELSE "none",
          hashes_match |->
             \A e \in files : \E i \in DOMAIN zip :
                /\ zip[i].name = << PROJECT >> \o e.path
                /\ Sha256(zip[i].data) = e.sha256 ]

\* validate_repo_backup_zip: "ok" or the RuntimeError it raises
validate_repo_backup_zip(zip) ==
    LET names == { zip[i].name : i \in DOMAIN zip }
        roots == { n[1] : n \in { m \in names : Len(m) > 1 } }
        root == CHOOSE r \in roots : TRUE
        manifests == { i \in DOMAIN zip : zip[i].name = << root, _MANIFEST_NAME >> }
        files == zip[MaxOf(manifests)].files
    IN  IF names = {} THEN "backup zip is empty"
        ELSE IF Cardinality(roots) # 1 THEN "exactly one root folder"
        ELSE IF manifests = {} THEN "backup manifest missing"
        ELSE IF files = {} THEN "backup manifest has no files"
        ELSE IF \E e \in files : (<< root >> \o e.path) \notin names
             THEN "backup missing file listed in manifest"
        ELSE IF \E e \in files : \E i \in DOMAIN zip :
                   /\ zip[i].name = << root >> \o e.path
                   /\ Sha256(zip[i].data) # e.sha256
             THEN "hash mismatch"
        ELSE "ok"

\* both validators run on the archive just built
bk_validate ==
    /\ pk.at = "done"
    /\ pk' = [ at |-> "validated", out_zip |-> pk.out_zip,
               report |-> validate_backup_zip(ArchiveAsBackup(pk.out_zip)),
               repo_backup |-> validate_repo_backup_zip(pk.out_zip) ]
    /\ UNCHANGED <<fs, loc, pc, os_linesep, truth_phases_required, policy, tree>>

NextBackupValidate == bk_begin \/ bk_write \/ bk_manifest \/ bk_replace \/ bk_validate

SpecBackupValidate == InitBackup /\ [][NextBackupValidate]_vars

----------------------------------------------------------------------------
(* make_zip followed by validate_truth_zip, for any project name.  A project
   name is a sequence of pieces: "Foo", the text "_TRUTH_" and a blank *)

MaxNameLen == 2    \* pieces of a project name

NamePieces == { "Foo", "_TRUTH_", " " }

ProjectNames == UNION { [1..n -> NamePieces] : n \in 1..MaxNameLen }

\* str.strip(): the blanks at both ends removed
RECURSIVE StripName(_)
StripName(name) ==
    IF name # << >> /\ Head(name) = " " THEN StripName(Tail(name))
    ELSE IF name # << >> /\ name[Len(name)] = " "
         THEN StripName(SubSeq(name, 1, Len(name) - 1))
    ELSE name

\* make_zip line 28: project.strip().strip("/").strip("\\")
project_prefix(proj) == StripName(proj)

\* f"{project}_TRUTH_V{new_ver}_{kind}.zip" (confirm_draft lines 479-480)
ZipFileName(proj, ver, kind) == proj \o << "_TRUTH_", ToString(ver), kind >>

\* _infer_project_from_filename: name.split("_TRUTH_", 1)[0]
_infer_project_from_filename(fname) ==
    SubSeq(fname, 1, MinOf({ i \in DOMAIN fname : fname[i] = "_TRUTH_" }) - 1)

\* make_zip as a whole: "ok" and the member names, or the error raised
make_zip_members(proj, files) ==
    IF project_prefix(proj) = << >>
    THEN [ raised |-> "project name is empty", members |-> << >> ]
    ELSE IF \E i, j \in DOMAIN files :
               i # j /\ ArcKey(files[i]) = ArcKey(files[j])
    THEN [ raised |-> "duplicate archive path", members |-> << >> ]
    ELSE [ raised |-> "none",
           members |-> [ i \in DOMAIN files |->
                           << project_prefix(proj) >> \o files[i] ] ]

InitBuildValidate ==
    /\ TRUTH_MD = WriteText(InitLedger(1, TRUE), "LF")
    /\ VERSION_PY = WriteText(MarkerLines(PROJECT, 1), "LF")
    /\ truth_phases_required = TRUE
    /\ os_linesep = "LF"
    /\ draft_dir = EmptyDir
    /\ zip_root = {}
    /\ backup_root = {}
    /\ pc = "idle"
    /\ NoRun
    /\ policy \in ZipPolicies
    /\ tree \in { t \in Trees : /\ \E f \in t : Len(f) > 1 /\ f[1] = "app"
                                /\ \E f \in t : Len(f) > 1 /\ f[1] = "tools" }
    /\ \E proj \in ProjectNames, ver \in { 1, MaxVer } :
          pk = [ at |-> "idle", proj |-> proj, ver |-> ver, kind |-> "FULL",
                 raised |-> "none", members |-> << >>, result |-> "none" ]

\* make_zip(zip_root / ZipFileName(project, ver, kind), cfg, slim, project)
bv_make_zip ==
    /\ pk.at = "idle"
    /\ \E slim \in BOOLEAN, rglob_order \in RglobOrders(tree) :
          LET r == make_zip_members(pk.proj,
                      list_repo_files(rglob_order, TruthConfig_load(policy), slim))
          IN  pk' = [ pk EXCEPT !.at = IF r.raised = "none" THEN "built" ELSE "failed",
                        !.kind = IF slim THEN "SLIM" ELSE "FULL",
                        !.raised = r.raised, !.members = r.members ]
    /\ UNCHANGED <<fs, loc, pc, os_linesep, truth_phases_required, policy, tree>>

\* validate_truth_zip(zip_root / ZipFileName(project, ver, kind))
bv_validate ==
    /\ pk.at = "built"
    /\ pk' = [ pk EXCEPT !.at = "validated",
                 !.result = validate_truth_zip(pk.members,
                               _infer_project_from_filename(
                                   ZipFileName(pk.proj, pk.ver, pk.kind))) ]
    /\ UNCHANGED <<fs, loc, pc, os_linesep, truth_phases_required, policy, tree>>

NextBuildValidate == bv_make_zip \/ bv_validate

SpecBuildValidate == InitBuildValidate /\ [][NextBuildValidate]_vars

----------------------------------------------------------------------------
(* Properties *)

SameText(a, b) == ReadText(a) = ReadText(b)
VerOf(py) == read_project_and_truth_version(py)[2]
NoNewZips == ZipName(new_ver, "FULL") \notin zip_root
             /\ ZipName(new_ver, "SLIM") \notin zip_root
Finished(o) == pc = "done" /\ op = o

\* C1: when confirm_draft fails at archive building or archive validation, on
\* return the ledger and the version marker are identical (byte for byte,
\* whatever their line endings were) to what they were before the transaction,
\* and neither release archive of the new version exists.
C1_RollbackByteIdentical ==
    (Finished("confirm")
       /\ failed_at \in {"zip_full", "zip_slim", "validate_full", "validate_slim"}
       /\ hist.rollback_failed = {})
    => /\ TRUTH_MD = hist.md
       /\ VERSION_PY = hist.py
       /\ NoNewZips

\* C2: when index verification or post-phase verification rejects the tree in
\* confirm_draft, the ledger and the marker are restored from the snapshot and
\* both new release archives are deleted before the failure reaches the caller.
C2_VerifyFailureRollsBack ==
    (Finished("confirm") /\ failed_at \in {"verify_index", "post_verify"})
    => /\ SameText(TRUTH_MD, hist.md)
       /\ SameText(VERSION_PY, hist.py)
       /\ NoNewZips

\* C3: a failure of mint_truth at any step from MUTATE onward leaves the ledger
\* and the marker with their pre-transaction content and no release archive of
\* the new version on disk.
C3_MintFailureRollsBack ==
    (Finished("mint")
       /\ failed_at \in {"append", "bump", "repo_map", "build_index",
                         "verify_index", "zip_full", "zip_slim", "post_verify"})
    => /\ SameText(TRUTH_MD, hist.md)
       /\ SameText(VERSION_PY, hist.py)
       /\ NoNewZips

\* C4: between operations the ledger's versions are contiguous 1..M with a
\* single project name, and the version marker equals M.
C4_LedgerMarkerContiguous ==
    pc = "idle" =>
       LET entries == parse_truth_md(ReadText(TRUTH_MD))
       IN  /\ parse_truth_md_ok(ReadText(TRUTH_MD))
           /\ \A j \in DOMAIN entries : entries[j].version = j
           /\ cur_ver = Len(entries)

\* C5: a confirm_draft that succeeds with the marker at N appends exactly one
\* entry, of version N+1, sets the marker to N+1, leaves the FULL and SLIM
\* archives of N+1 in the archive root and deletes the consumed draft.
C5_ConfirmSuccess ==
    (Finished("confirm") /\ exc = "none") =>
       LET old == parse_truth_md(ReadText(hist.md))
           new == parse_truth_md(ReadText(TRUTH_MD))
           N == VerOf(hist.py)
       IN  /\ Len(new) = Len(old) + 1
           /\ \A j \in DOMAIN old : new[j] = old[j]
           /\ new[Len(new)].version = N + 1
           /\ new[Len(new)].project = PROJECT
           /\ VerOf(VERSION_PY) = N + 1
           /\ ZipName(N + 1, "FULL") \in zip_root
           /\ ZipName(N + 1, "SLIM") \in zip_root
           /\ (N + 1) \in DOMAIN hist.drafts
           /\ DOMAIN draft_dir = (DOMAIN hist.drafts) \ {N + 1}

C5_Witness == Finished("confirm") /\ exc = "none" /\ VerOf(VERSION_PY) = 3

C7_AtMostOneDraft == Cardinality(DOMAIN draft_dir) <= 1

\* C8: a confirm_draft that fails leaves the draft store as it was; the draft
\* is deleted only once post-phase verification has passed.
C8_DraftKept ==
    (op = "confirm" /\ pc # "idle") =>
       \/ draft_dir = hist.drafts
       \/ /\ pc = "done"
          /\ exc = "none"
          /\ verify_truth_main("post", TRUTH_MD, VERSION_PY, zip_root,
                               truth_phases_required)

C8_Witness ==
    /\ Finished("confirm")
    /\ failed_at = "post_verify"
    /\ (VerOf(hist.py) + 1) \in DOMAIN draft_dir

\* the rank of a step in the order PRE_VERIFY, SNAPSHOT, MUTATE (append, then
\* marker bump), REBUILD_INDEX, BUILD_ARCHIVES, VALIDATE_ARCHIVES, POST_VERIFY,
\* COMMIT
StageRank(step) ==
    CASE step = "pre_verify" -> 10
      [] step \in {"bind_draft", "read_version"} -> 15
      [] step = "snapshot" -> 20
      [] step = "append" -> 30
      [] step = "bump" -> 40
      [] step = "repo_map" -> 45
      [] step = "build_index" -> 50
      [] step = "verify_index" -> 55
      [] step = "zip_full" -> 60
      [] step = "zip_slim" -> 65
      [] step = "validate_full" -> 70
      [] step = "validate_slim" -> 75
      [] step = "post_verify" -> 80
      [] step = "commit" -> 90
      [] OTHER -> 0

FirstHeader(text) ==
    LET lines == [i \in DOMAIN StripNl(text) |->
                    _normalize_truth_candidate(StripNl(text)[i])]
        S == {i \in DOMAIN lines : lines[i].k = "HDR" /\ lines[i].f # "md"}
    IN  IF S = {} THEN << >> ELSE << lines[MinOf(S)] >>

HeaderNames(text, p, v) ==
    FirstHeader(text) # << >>
    /\ FirstHeader(text)[1].p = p /\ FirstHeader(text)[1].v = v

HeaderNamesOther(text, p, v) ==
    FirstHeader(text) # << >>
    /\ (FirstHeader(text)[1].p # p \/ FirstHeader(text)[1].v # v)

HasLine(text, k) == \E i \in DOMAIN text : text[i] = Ln(k)

\* the ledger has grown by lines that hold a header of (project, new_ver)
Appended ==
    LET old == ReadText(hist.md)
        new == ReadText(TRUTH_MD)
    IN  /\ pc = "bump" /\ exc = "none"
        /\ Len(new) > Len(old)
        /\ SubSeq(new, 1, Len(old)) = old
        /\ \E i \in (Len(old) + 1)..Len(new) :
              new[i].k = "HDR" /\ new[i].p = project /\ new[i].v = new_ver

Raised == pc = "done" /\ failed_at = "append" /\ exc # "none" /\ TRUTH_MD = hist.md

\* C9 as stated: append_truth_md_verbatim succeeds when the block's header
\* names the expected project and version; it raises and leaves the ledger
\* unchanged when the header names another version or another project.
C9_AppendByHeaderOnly ==
    (pc # "append" /\ err # "env") =>
       /\ HeaderNames(statement_text, project, new_ver) => Appended
       /\ HeaderNamesOther(statement_text, project, new_ver) => Raised

\* C9 amended: append_truth_md_verbatim succeeds when the block's header names
\* the expected project and version and the block has an END line and, when
\* phases are required, LOCKED PRE and LOCKED POST and no legacy LOCKED; it
\* raises and leaves the ledger unchanged when the header names another
\* version or another project.
C9_AppendValidity ==
    (pc # "append" /\ err # "env") =>
       /\ ( /\ HeaderNames(statement_text, project, new_ver)
            /\ HasLine(statement_text, "END")
            /\ truth_phases_required =>
                  /\ HasLine(statement_text, "PRE")
                  /\ HasLine(statement_text, "POST")
                  /\ ~HasLine(statement_text, "LOCKED") )
          => Appended
       /\ HeaderNamesOther(statement_text, project, new_ver) => Raised

C9_Witness ==
    /\ pc = "bump"
    /\ HeaderNames(statement_text, project, new_ver)
    /\ TRUTH_MD # hist.md

AllAttempted == hist.rb_attempted = { RB_STEPS[i] : i \in DOMAIN RB_STEPS }

\* C11: after the rollback of confirm_draft every restore step has been
\* attempted, so each step that did not itself fail has taken effect whatever
\* the other steps did; when a step failed the caller gets the ROLLBACK
\* HARD-FAIL error carrying the triggering error and the failed steps, and
\* otherwise the triggering error itself.
C11_RollbackEscalation ==
    (Finished("confirm") /\ hist.raised.kind # "none") =>
       /\ AllAttempted
       /\ "restore_md" \notin hist.rollback_failed => SameText(TRUTH_MD, hist.md)
       /\ "restore_py" \notin hist.rollback_failed => SameText(VERSION_PY, hist.py)
       /\ "del_full" \notin hist.rollback_failed
             => ZipName(new_ver, "FULL") \notin zip_root
       /\ "del_slim" \notin hist.rollback_failed
             => ZipName(new_ver, "SLIM") \notin zip_root
       /\ hist.raised.original = failed_at
       /\ hist.raised.rollback_errors = hist.rollback_failed
       /\ hist.raised.kind = IF hist.rollback_failed = {}
                             THEN "original" ELSE "ROLLBACK HARD-FAIL"

C11_Witness ==
    /\ Finished("confirm")
    /\ failed_at = "validate_slim"
    /\ hist.rollback_failed = {"restore_md", "del_full"}
    /\ hist.raised.kind = "ROLLBACK HARD-FAIL"
    /\ SameText(VERSION_PY, hist.py)
    /\ ZipName(new_ver, "SLIM") \notin zip_root

\* the artifact roots the policy document names (or leaves to the defaults)
ArtifactRoots(data) ==
    { Get(data, "zip_root", "_truth"), Get(data, "ai_index_root", "_ai_index"),
      Get(data, "draft_root", "_truth_drafts") }

\* C12: no file under the release-archive root, the derived-index root or the
\* draft root is in the file list that confirm_draft / mint_truth give to
\* make_zip, for the FULL and for the SLIM archive, whatever the policy
\* document's excluded-folder list says.
C12_ArtifactRootsNotPackaged ==
    (pk.at = "decided" /\ Len(pk.rel) > 1 /\ pk.rel[1] \in ArtifactRoots(policy))
       => pk.zip_full /\ pk.zip_slim

\* C13: the backup builder and the derived-index builder decide on every path
\* as the canonical enumerator does (slim off, no re-allowed roots).
C13_ConsumersAgree ==
    pk.at = "decided" => pk.backup = pk.canonical /\ pk.index = pk.canonical

\* C18: a path that make_zip puts into a slim archive has no component equal
\* to a folder name of the policy's common, slim-only or slim-extra lists and
\* no extension equal, ignoring case, to a slim-excluded extension.
C18_SlimFilter ==
    (pk.at = "decided" /\ ~pk.zip_slim) =>
       /\ Parts(pk.rel) \cap ( Get(policy, "exclude_common_folders", {})
                               \cup Get(policy, "slim_exclude_folders", {})
                               \cup Get(policy, "slim_exclude_extra_folders", {}) ) = {}
       /\ \A x \in Get(policy, "slim_exclude_ext", {}) :
             Lower(Suffix(NameOf(pk.rel))) # Lower(x)

C18_Witness ==
    /\ pk.at = "decided"
    /\ ~pk.zip_slim
    /\ pk.rel = << "app", "d.LOG" >>
    /\ policy.slim_exclude_ext = {".TXT"}
    /\ policy.slim_exclude_folders = {}
    /\ policy.slim_exclude_extra_folders = {"tools"}
    /\ "exclude_common_folders" \in policy.keys
    /\ policy.exclude_common_folders = {"_logs"}

\* C16: validate_truth_zip rejects every archive with a member that is not
\* under "<project>/" and every archive with two member paths that are equal
\* ignoring letter case.
C16_ValidateRejects ==
    pk.at = "validated" =>
       /\ (\E i \in DOMAIN pk.names : ~StartsWith(pk.names[i], << PROJECT >>))
             => pk.result # "ok"
       /\ (\E i, j \in DOMAIN pk.names :
              i # j /\ LowerPath(pk.names[i]) = LowerPath(pk.names[j]))
             => pk.result # "ok"

\* C17: validate_truth_zip accepts an archive only if it has a member under
\* "<project>/app/" and a member under "<project>/tools/".
C17_BothCoreSubtrees ==
    (pk.at = "validated" /\ pk.result = "ok") =>
       /\ \E i \in DOMAIN pk.names : StartsWith(pk.names[i], << PROJECT, "app" >>)
       /\ \E i \in DOMAIN pk.names : StartsWith(pk.names[i], << PROJECT, "tools" >>)

\* a list of paths in non-decreasing order of the lower-cased posix path
SortedByKey(files) ==
    \A i, j \in DOMAIN files : i < j => SortKey(files[i]) <= SortKey(files[j])

NoPathTwice(files) ==
    \A i, j \in DOMAIN files : i # j => files[i] # files[j]

\* two paths of the list are equal ignoring letter case
HasCaseDup(files) ==
    \E i, j \in DOMAIN files : i # j /\ LowerPath(files[i]) = LowerPath(files[j])

\* C14: for a fixed tree and policy, list_repo_files returns the included
\* files in non-decreasing order of the lower-cased posix path, no path
\* twice, and two runs return the same ordered list, also when two paths
\* differ only by letter case.
C14_ListDeterministic ==
    (pk.at = "listed" /\ Len(pk.runs) = 2) =>
       /\ \A r \in 1..2 : SortedByKey(pk.runs[r]) /\ NoPathTwice(pk.runs[r])
       /\ pk.runs[1] = pk.runs[2]

\* C15: make_zip fails when two enumerated files have archive paths equal
\* ignoring letter case, and then no file is at the target path; at every
\* moment the target path is absent or holds a complete archive, the one
\* built in the temporary file from all the enumerated files.
C15_ZipAtomic ==
    /\ (pk.at \in { "failed", "done" } /\ HasCaseDup(pk.files)) => pk.at = "failed"
    /\ pk.at = "failed" => ~pk.target.exists
    /\ pk.target.exists => pk.target.complete
    /\ (pk.at \in { "writing", "failed", "done" } /\ pk.target.exists) =>
          /\ pk.at = "done"
          /\ pk.target.members =
                [ i \in DOMAIN pk.files |-> << PROJECT >> \o pk.files[i] ]

C15_Witness ==
    /\ pk.at = "failed"
    /\ pk.raised = "duplicate archive path"
    /\ << "app", "a.txt" >> \in tree /\ << "app", "A.txt" >> \in tree
    /\ pk.before = OldArchive
    /\ ~pk.target.exists
    /\ Len(pk.tmp.members) = 2

\* the folders the policy document excludes from a SLIM archive
PolicyExcludedFolders(data) ==
    Get(data, "exclude_common_folders", {})
       \cup Get(data, "slim_exclude_folders", {})
       \cup Get(data, "slim_exclude_extra_folders", {})

\* C19: post-phase verification fails whenever the SLIM archive of the
\* current version has a member under a folder named in the policy's
\* excluded-folder lists or with an extension among the policy's
\* slim-excluded extensions.
C19_SlimContentsVerified ==
    pk.at = "verified" =>
       ( (\E i \in DOMAIN pk.slim :
             \/ \E k \in 2..(Len(pk.slim[i]) - 1) :
                   pk.slim[i][k] \in PolicyExcludedFolders(policy)
             \/ Lower(Suffix(NameOf(pk.slim[i])))
                   \in { Lower(x) : x \in Get(policy, "slim_exclude_ext", {}) })
         => pk.result # "ok" )

\* C20: when the last-backup marker exists, post-phase verification fails if
\* the backup archive it names is missing, is not nested under a single root
\* folder, has no manifest member, or has a manifest entry whose recorded
\* hash differs from the hash of the archived bytes.
C20_BackupVerified ==
    (pk.at = "verified" /\ pk.marker = "names backup") =>
       ( ( \/ ~pk.backup.exists
           \/ Cardinality(pk.backup.roots) # 1
           \/ pk.backup.manifest = "none"
           \/ ~pk.backup.hashes_match )
         => pk.result # "ok" )

\* C21: in every archive build_repo_backup_zip produces the manifest is the
\* last member, the paths keyed in the manifest are exactly the file members
\* other than the manifest, and each entry carries the hash and the size of
\* the archived bytes.
C21_ManifestReflectsArchive ==
    pk.out_exists =>
       LET n == Len(pk.out_zip)
           manifest == pk.out_zip[n].files
           archived == { i \in 1..(n - 1) : TRUE }
       IN  /\ n >= 1
           /\ pk.out_zip[n].kind = "manifest"
           /\ \A i \in archived : pk.out_zip[i].kind = "file"
           /\ { << PROJECT >> \o e.path : e \in manifest }
                 = { pk.out_zip[i].name : i \in archived }
           /\ \A e \in manifest : \E i \in archived :
                 /\ pk.out_zip[i].name = << PROJECT >> \o e.path
                 /\ e.sha256 = Sha256(pk.out_zip[i].data)
                 /\ e.bytes = StSize(pk.out_zip[i].data)
           /\ Cardinality(manifest) = n - 1

C21_Witness ==
    /\ pk.at = "done"
    /\ pk.out_exists
    /\ Len(pk.out_zip) = 3
    /\ pk.out_zip[1].name = << PROJECT, "A.txt" >>
    /\ pk.out_zip[2].name = << PROJECT, "tools", "d.LOG" >>
    /\ pk.out_zip[1].data # pk.out_zip[2].data
    /\ << "a.txt" >> \in tree
    /\ policy.exclude_common_files = { "a.txt" }

\* the lines of entry j of the ledger document, its header excluded
EntryBlock(j) ==
    _iter_truth_entry_blocks(ReadText(TRUTH_MD), parse_truth_md(ReadText(TRUTH_MD)), j)

EntryCount == Len(parse_truth_md(ReadText(TRUTH_MD)))

\* every index of marker a in the block is before every index of marker b
AllBefore(block, a, b) ==
    \A i \in MarkerIdx(block, a), j \in MarkerIdx(block, b) : i < j

\* no section marker occurs twice in the block
MarkersOnce(block) ==
    \A k \in { "PRE", "POST", "NOTES", "END", "LOCKED" } :
       Cardinality(MarkerIdx(block, k)) <= 1

\* C22: verify_truth_md_format accepts a phased entry only with its section
\* markers in the order LOCKED PRE, LOCKED POST, NOTES (if present), END, so
\* an entry with NOTES before LOCKED POST is rejected, and accepts a legacy
\* entry only with LOCKED before END.  (Stated for entries in which no
\* marker occurs twice.)
C22_SectionOrder ==
    (pk.at = "verified" /\ pk.format_ok) =>
       \A j \in 1..EntryCount :
          LET b == EntryBlock(j)
          IN  MarkersOnce(b) =>
                 IF HasMarker(b, "PRE") \/ HasMarker(b, "POST")
                 THEN /\ AllBefore(b, "PRE", "POST")
                      /\ AllBefore(b, "POST", "NOTES")
                      /\ AllBefore(b, "NOTES", "END")
                      /\ AllBefore(b, "POST", "END")
                 ELSE AllBefore(b, "LOCKED", "END")

\* C23: verify_truth_md_format accepts a document only if every entry has
\* exactly one END line between its header and the next header (or the end
\* of the document) and no entry holds both the legacy LOCKED marker and a
\* phased marker.
C23_OneEndNoMixing ==
    (pk.at = "verified" /\ pk.format_ok) =>
       \A j \in 1..EntryCount :
          LET b == EntryBlock(j)
          IN  /\ Cardinality(MarkerIdx(b, "END")) = 1
              /\ ~(HasMarker(b, "LOCKED")
                     /\ (HasMarker(b, "PRE") \/ HasMarker(b, "POST")))

C23_Witness ==
    /\ pk.at = "verified"
    /\ ~pk.format_ok
    /\ ~truth_phases_required
    /\ ReadText(TRUTH_MD) = << Hdr(PROJECT, 1), Ln("LOCKED"), Hdr(PROJECT, 2),
                               Ln("LOCKED"), Ln("END") >>

\* C25: verification of the ledger fails for every document with a line
\* PHASE PRE or PHASE POST, wherever the line is.
C25_ReservedMarkerRejected ==
    (pk.at = "verified" /\ pk.ok) =>
       \A i \in DOMAIN ReadText(TRUTH_MD) : ~IsMarker(ReadText(TRUTH_MD)[i], "PHASE")

\* C24: with the phases flag set, the verifier accepts no document with a
\* legacy-shaped entry (an entry without LOCKED PRE and LOCKED POST, or with
\* the legacy LOCKED), and append_truth_md_verbatim raises, the ledger
\* unchanged, on every text that holds a legacy LOCKED line or lacks
\* LOCKED PRE or LOCKED POST.
C24_PhasesRequired ==
    /\ (pk.at = "verified" /\ truth_phases_required /\ pk.format_ok) =>
          \A j \in 1..EntryCount :
             /\ HasMarker(EntryBlock(j), "PRE")
             /\ HasMarker(EntryBlock(j), "POST")
             /\ ~HasMarker(EntryBlock(j), "LOCKED")
    /\ ( /\ op = "mint" /\ pc # "append" /\ truth_phases_required
         /\ \/ HasLine(statement_text, "LOCKED")
            \/ ~HasLine(statement_text, "PRE")
            \/ ~HasLine(statement_text, "POST") )
          => Raised

C24_Witness ==
    /\ pk.at = "verified"
    /\ truth_phases_required
    /\ ~pk.format_ok
    /\ ReadText(TRUTH_MD) = << Hdr(PROJECT, 1), Ln("LOCKED"), Ln("END") >>

\* C26: document-level verification accepts a ledger only if the versions of
\* its entries, in document order, are 1, 2, ..., N and every entry carries
\* the same project name.
C26_ContiguousOneProject ==
    (pk.at = "verified" /\ pk.ok) =>
       LET entries == parse_truth_md(ReadText(TRUTH_MD))
       IN  /\ Len(entries) >= 1
           /\ \A j \in DOMAIN entries :
                 /\ entries[j].version = j
                 /\ entries[j].project = entries[1].project

C26_Witness ==
    /\ pk.at = "verified"
    /\ ~pk.ok
    /\ ReadText(TRUTH_MD) = << Hdr(PROJECT, 1), Ln("END"), Hdr(PROJECT, 3), Ln("END") >>

\* the header lines of the ledger before the repair, in document order
HeadersBefore ==
    SortedSeq({ i \in DOMAIN ReadText(pk.md_before) :
                  ReadText(pk.md_before)[i].k = "HDR" })

\* entry n of the ledger before the repair has an END line
EntryHadEnd(n) ==
    LET old == ReadText(pk.md_before)
        last == IF n < Len(HeadersBefore) THEN HeadersBefore[n + 1] - 1 ELSE Len(old)
    IN  \E i \in HeadersBefore[n]..last : old[i] = Ln("END")

\* C27: when only the last entry lacks END, repair_truth_md removes that
\* entry from its header line to the end of the document, leaves the lines
\* of every earlier entry as they were, and sets the version marker to the
\* highest version remaining in the ledger.
C27_RepairTruncatesLast ==
    ( /\ pk.at = "repaired"
      /\ Len(HeadersBefore) >= 1
      /\ ~EntryHadEnd(Len(HeadersBefore))
      /\ \A n \in 1..(Len(HeadersBefore) - 1) : EntryHadEnd(n) )
    => LET old == ReadText(pk.md_before)
           new == ReadText(TRUTH_MD)
           si == HeadersBefore[Len(HeadersBefore)]
       IN  /\ ~pk.raised
           /\ RStripNl(new) = RStripNl(SubSeq(old, 1, si - 1))
           /\ read_project_and_truth_version(VERSION_PY)[2]
                 = MaxOf({ new[i].v : i \in { j \in DOMAIN new : new[j].k = "HDR" } })

C27_Witness ==
    /\ pk.at = "repaired"
    /\ ReadText(pk.md_before) = << Hdr(PROJECT, 1), Ln("TEXT"), Ln("END"), BLANK,
                                  Hdr(PROJECT, 2) >>
    /\ ReadText(TRUTH_MD) = << Hdr(PROJECT, 1), Ln("TEXT"), Ln("END") >>
    /\ read_project_and_truth_version(VERSION_PY)[2] = 1
    /\ pk.truncated = 2

\* C28: when an entry other than the last lacks END, repair_truth_md aborts
\* with an error and leaves the ledger and the version marker as they were.
C28_RepairAbortsMidstream ==
    ( /\ pk.at = "repaired"
      /\ \E n \in 1..(Len(HeadersBefore) - 1) : ~EntryHadEnd(n) )
    => /\ pk.raised
       /\ TRUTH_MD = pk.md_before
       /\ VERSION_PY = pk.py_before

C28_Witness ==
    /\ pk.at = "repaired"
    /\ pk.raised
    /\ ReadText(pk.md_before) = << Hdr(PROJECT, 1), Ln("TEXT"), Hdr(PROJECT, 2),
                                  Ln("TEXT"), Ln("END") >>
    /\ TRUTH_MD = pk.md_before

\* C30: after set-type and reseed --force (as after mint-draft, confirm-draft
\* and mint) every entry that was in the ledger is still there with its header
\* and body unchanged: the ledger before the operation is a prefix of the
\* ledger after it.
C30_AppendOnly ==
    (pk.at = "done" /\ pk.op \in { "set-type", "reseed", "reseed --force" }) =>
       LET old == RStripNl(ReadText(pk.md_before))
           new == ReadText(TRUTH_MD)
       IN  /\ Len(new) >= Len(old)
           /\ SubSeq(new, 1, Len(old)) = old

\* C29: a crash at any point during a write to the ledger document or to the
\* version marker leaves the target holding its complete old content or its
\* complete new content.
C29_CrashSafeWrite ==
    pk.at = "crashed" =>
       LET target == IF WriteTarget(pk.site) = "md" THEN TRUTH_MD ELSE VERSION_PY
       IN  target = pk.old \/ target = pk.new

\* the versions of the drafts that get_draft_path names for the project
OwnDraftVers(proj, ddir) ==
    { v \in 1..(MaxVer + 1) : get_draft_path(proj, v) \in DOMAIN ddir }

WriteDraftContract ==
    pk.op = "write_draft" =>
       IF pk.path \in DOMAIN pk.before /\ ~pk.ow
       THEN pk.raised /\ draft_dir = pk.before
       ELSE /\ ~pk.raised
            /\ draft_dir[pk.path] = DraftText(pk.text)
            /\ \A n \in DOMAIN pk.before : n # pk.path => draft_dir[n] = pk.before[n]

DeleteDraftContract ==
    (pk.op = "delete_draft" /\ pk.path \notin DOMAIN pk.before) =>
       draft_dir = pk.before

C32_MintDraftFrame ==
    (op = "mint_draft" /\ pc # "idle") =>
       /\ TRUTH_MD = hist.md
       /\ VERSION_PY = hist.py
       /\ zip_root = hist.zips
       /\ backup_root = hist.backups
       /\ (pc = "done" /\ exc = "none") =>
             LET N == VerOf(hist.py)
             IN  /\ DOMAIN draft_dir = (DOMAIN hist.drafts) \cup { N + 1 }
                 /\ draft_dir[N + 1] = StripNl(statement_text)
                 /\ \A v \in DOMAIN hist.drafts : v # N + 1 => draft_dir[v] = hist.drafts[v]

C32_Witness ==
    /\ Finished("mint_draft")
    /\ exc = "none"
    /\ overwrite
    /\ (VerOf(hist.py) + 1) \in DOMAIN hist.drafts
    /\ draft_dir[VerOf(hist.py) + 1] # hist.drafts[VerOf(hist.py) + 1]

\* C33: when make_zip fails inside confirm_draft after it has created its
\* temporary build file, then after the rollback no file of the failed build
\* is left in the release-archive root: neither the archive nor the temporary
\* build file.
C33_NoBuildFileLeft ==
    pk.at = "rolled_back" => (~pk.target.exists /\ ~pk.tmp.exists)

\* C34: every block that append_truth_md_verbatim accepts adds to the ledger
\* exactly one entry that the ledger validator recognizes: one header of the
\* expected project and version, followed by exactly one END line.
C34_AppendAddsOneEntry ==
    (pc = "bump" /\ exc = "none") =>
       LET old == parse_truth_md(ReadText(hist.md))
           new == parse_truth_md(ReadText(TRUTH_MD))
       IN  /\ Len(new) = Len(old) + 1
           /\ \A j \in DOMAIN old : new[j] = old[j]
           /\ new[Len(new)].project = project
           /\ new[Len(new)].version = new_ver
           /\ Cardinality(MarkerIdx(EntryBlock(Len(new)), "END")) = 1

\* C35: every backup archive built by build_repo_backup_zip from a non-empty
\* tree is accepted by validate_backup_zip (its report has ok = true) and by
\* validate_repo_backup_zip.
C35_BuiltBackupValidates ==
    (pk.at = "validated" /\ tree # {}) =>
       /\ pk.report.ok
       /\ pk.repo_backup = "ok"

\* the built archive holds a file under app/ and a file under tools/
HasCoreMembers ==
    /\ \E i \in DOMAIN pk.members : pk.members[i][2] = "app" /\ Len(pk.members[i]) > 2
    /\ \E i \in DOMAIN pk.members : pk.members[i][2] = "tools" /\ Len(pk.members[i]) > 2

\* C36: for every non-empty project name P and version n, the archive that
\* make_zip builds with project P at P_TRUTH_Vn_FULL.zip or P_TRUTH_Vn_SLIM.zip
\* from a tree with files under app/ and tools/ is accepted by
\* validate_truth_zip.
C36_BuiltArchiveValidates ==
    (pk.at = "validated" /\ HasCoreMembers) => pk.result = "ok"

HeaderVersions(lines) == { lines[i].v : i \in { j \in DOMAIN lines : RepairHeader(lines[j]) } }

\* C38: repair_truth_md is idempotent; on a ledger in which every entry has
\* an END line and the marker equals the latest version it changes neither
\* the entries nor the marker; after it has run on any ledger, one without
\* headers included, the marker equals the highest version present in the
\* ledger (0 when there is none).
C38_RepairIdempotentSync ==
    pk.at = "repaired" =>
       LET old == ReadText(pk.md_before)
           new == ReadText(TRUTH_MD)
           again == repair_truth_md(TRUTH_MD, VERSION_PY)
       IN  /\ again.md = TRUTH_MD /\ again.py = VERSION_PY
           /\ ( /\ NoEndEntries(old) = {}
                /\ VerOf(pk.py_before) = MaxOf(HeaderVersions(old)) )
              => /\ RStripNl(new) = RStripNl(old)
                 /\ VerOf(VERSION_PY) = VerOf(pk.py_before)
           /\ VerOf(VERSION_PY) = MaxOf(HeaderVersions(new))

\* C39: reseed_truth_epoch without force raises and changes nothing; with
\* force, when it returns, successfully or with an error from one of its
\* steps, the ledger is exactly one entry of version 1 in phased shape, the
\* marker is 1, the phases flag is set and the previous ledger text is in the
\* legacy archive file.
C39_ReseedOutcome ==
    /\ (pk.at = "done" /\ pk.op = "reseed") =>
          /\ pk.raised # "none"
          /\ TRUTH_MD = pk.md_before
          /\ VERSION_PY = pk.py_before
          /\ truth_phases_required = pk.flag_before
    /\ (pk.at = "done" /\ pk.op = "reseed --force") =>
          LET lines == ReadText(TRUTH_MD)
              entries == parse_truth_md(lines)
          IN  /\ Len(entries) = 1
              /\ entries[1].version = 1
              /\ verify_truth_md_format(lines, TRUE)
              /\ VerOf(VERSION_PY) = 1
              /\ truth_phases_required
              /\ ReadText(pk.legacy) = ReadText(pk.md_before)

====
